---------------------------- MODULE Spec2Model ----------------------------
(***************************************************************************)
(* Model of the USD/PEN dashboard server (src/server.js): the background   *)
(* sampling cycle runOnceSafe, the lazily launched shared browser, the     *)
(* in-memory day series liveSeries and the socket.io fan-out (boot/tick).  *)
(*                                                                         *)
(* JavaScript runs one callback at a time, so every action below is one    *)
(* run-to-completion segment of the code: from the resolution of one       *)
(* awaited promise up to the next await (or the end of the function).      *)
(***************************************************************************)
EXTENDS Integers, Sequences, FiniteSets, TLC

(***************************************************************************)
(* Bounds of the model.                                                    *)
(***************************************************************************)
\* number of cycles started over the run (first tick + timer fires)
MaxCycles == 2
\* last instant of the wall clock
MaxTime == 2
\* clock instants per UTC calendar day (stands for the 86400000 ms of a day)
DayLen == 2
\* number of socket.io clients that ever connect
MaxSubs == 1
\* the length cap of liveSeries: stands for the literal 2000 of
\* src/server.js:197, scaled down so that the model reaches it
Cap == 2
\* longest text handed to parseNum on its own
MaxText == 3
\* largest number of offers read from the fintech page when the extractors
\* are applied on their own
MaxRows == 3
\* largest number of entries on the fintech page when every page is tried
MaxEntries == 2

(***************************************************************************)
(* JavaScript numbers are IEEE-754 doubles.  The model writes a double in  *)
(* one of two ways.  A double read from a decimal text (by Number or       *)
(* parseFloat) is written [n, d]: the double nearest to the rational n/d,  *)
(* n/d in lowest terms with d > 0; different texts of up to 15 digits      *)
(* are different doubles, in the order of their rationals.  A double that  *)
(* results from arithmetic is written [s, m, e]: the exact value           *)
(* s * m * 2^e with sign s in {-1, 0, 1} and m a 53-bit natural (0 when    *)
(* s = 0).  NaN is the record [n, d] with d = 0, Infinity and -Infinity    *)
(* are the records [inf] with inf = 1 and -1: a result past the largest    *)
(* double is Infinity.  The texts the model draws have up to nine digits   *)
(* and no exponent below -8, so subnormal numbers are left out.            *)
(***************************************************************************)
RECURSIVE GCD(_, _)
GCD(i, j) == IF j = 0 THEN i ELSE GCD(j, i % j)

Abs(x) == IF x < 0 THEN -x ELSE x

Rat(n, d) ==
  LET g == GCD(Abs(n), d)
  IN  [n |-> n \div g, d |-> d \div g]

NaN == [n |-> 0, d |-> 0]

\* the JavaScript values null / undefined, where a number or an object is
\* expected
Null == [null |-> TRUE]

\* null / undefined where a text is expected (texts are sequences of
\* one-character strings, so this is no text)
NoText == <<"undefined">>

\* x is written [s, m, e]
IsBinary(x) == "m" \in DOMAIN x

\* Infinity (s = 1) and -Infinity (s = -1)
Inf(s) == [inf |-> s]

IsInf(x) == "inf" \in DOMAIN x

\* Number.isFinite(x)
IsFinite(x) == x # Null /\ ~IsInf(x) /\ (IsBinary(x) \/ x.d # 0)

Positive(x) ==
  IF IsInf(x) THEN x.inf > 0 ELSE IF IsBinary(x) THEN x.s > 0 ELSE x.n > 0

RECURSIVE Pow10(_)
Pow10(k) == IF k = 0 THEN 1 ELSE 10 * Pow10(k - 1)

(***************************************************************************)
(* Naturals of up to 80 bits, for the mantissas of doubles: a tuple of     *)
(* four limbs below 2^20, the least significant first.                     *)
(***************************************************************************)
W == 1048576

Pow2(k) == 2 ^ k

Big0 == <<0, 0, 0, 0>>

\* a natural below 2^31
BigOf(n) == <<n % W, n \div W, 0, 0>>

Limb(X, i) == IF i \in 1..4 THEN X[i] ELSE 0

\* the natural with limbs x1, x2, x3, x4 that may exceed 2^20 or be
\* negative (\div rounds down)
Carry(x1, x2, x3, x4) ==
  LET y2 == x2 + x1 \div W
      y3 == x3 + y2 \div W
      y4 == x4 + y3 \div W
  IN  <<x1 % W, y2 % W, y3 % W, y4>>

BigAdd(X, Y) == Carry(X[1] + Y[1], X[2] + Y[2], X[3] + Y[3], X[4] + Y[4])

\* X - Y, for X >= Y
BigSub(X, Y) == Carry(X[1] - Y[1], X[2] - Y[2], X[3] - Y[3], X[4] - Y[4])

\* X * c, for c below 2^11
BigMul(X, c) == Carry(X[1] * c, X[2] * c, X[3] * c, X[4] * c)

\* quotient and remainder of X by n, for 0 < n < 2^11
BigDiv(X, n) ==
  LET t3 == (X[4] % n) * W + X[3]
      t2 == (t3 % n) * W + X[2]
      t1 == (t2 % n) * W + X[1]
  IN  [q |-> <<t1 \div n, t2 \div n, t3 \div n, X[4] \div n>>, r |-> t1 % n]

BigLess(X, Y) ==
  \E i \in 1..4 : X[i] < Y[i] /\ \A j \in (i + 1)..4 : X[j] = Y[j]

\* X * 2^k
BigShl(X, k) ==
  LET q == k \div 20
      r == k % 20
  IN  [i \in 1..4 |-> (Limb(X, i - q) % Pow2(20 - r)) * Pow2(r)
                        + Limb(X, i - q - 1) \div Pow2(20 - r)]

\* X \div 2^k
BigShr(X, k) ==
  LET q == k \div 20
      r == k % 20
  IN  [i \in 1..4 |-> Limb(X, i + q) \div Pow2(r)
                        + (Limb(X, i + q + 1) % Pow2(r)) * Pow2(20 - r)]

\* X % 2^k
BigLow(X, k) ==
  LET q == k \div 20
      r == k % 20
  IN  [i \in 1..4 |-> IF i <= q THEN X[i]
                        ELSE IF i = q + 1 THEN X[i] % Pow2(r) ELSE 0]

\* number of bits of X
BigLen(X) ==
  IF X = Big0 THEN 0
  ELSE LET i == CHOOSE j \in 1..4 : X[j] # 0 /\ \A h \in (j + 1)..4 : X[h] = 0
       IN  20 * (i - 1)
             + (CHOOSE k \in 1..31 : Pow2(k - 1) <= X[i] /\ X[i] \div 2 < Pow2(k - 1))

(***************************************************************************)
(* Arithmetic of doubles, rounding to nearest, ties to even.               *)
(***************************************************************************)
Zero == [s |-> 0, m |-> Big0, e |-> 0]

\* q + 1 when the remainder rem against half a unit (and the parity of q
\* at a tie with nothing below it) rounds up, else q
RoundUp(q, rem, half, sticky) ==
  IF BigLess(half, rem) \/ (rem = half /\ (sticky \/ q[1] % 2 = 1))
  THEN BigAdd(q, BigOf(1))
  ELSE q

\* the largest exponent e of a double m * 2^e with m of 53 bits
MaxExponent == 971

\* the double s * q * 2^e, with q brought back to 53 bits when rounding
\* carried into a 54th: Infinity past the largest double
Renorm(s, q, e) ==
  IF e + (IF BigLen(q) = 54 THEN 1 ELSE 0) > MaxExponent THEN Inf(s)
  ELSE IF BigLen(q) = 54 THEN [s |-> s, m |-> BigShr(q, 1), e |-> e + 1]
  ELSE [s |-> s, m |-> q, e |-> e]

\* Round when S has k bits more than 53
RoundAt(s, S, e, sticky, k) ==
  IF k <= 0 THEN Renorm(s, BigShl(S, -k), e + k)
  ELSE Renorm(s, RoundUp(BigShr(S, k), BigLow(S, k), BigShl(BigOf(1), k - 1),
                         sticky),
              e + k)

\* the double nearest to s * (S + f) * 2^e, for a natural S > 0 and a
\* fraction 0 <= f < 1 that is not 0 exactly when `sticky`; S has at least
\* 54 bits when sticky
Round(s, S, e, sticky) == RoundAt(s, S, e, sticky, BigLen(S) - 53)

Min(i, j) == IF i < j THEN i ELSE j

\* the double nearest to s * (d.q + g) * 2^e for a division result d and a
\* fraction 0 <= g < 1 that is not 0 exactly when d.r is not or `sticky`
DivRound(s, d, e, sticky) == Round(s, d.q, e, sticky \/ d.r # 0)

\* Naturals of any size, for the powers of ten of an exponent: a sequence
\* of limbs below 2^20, the least significant first, the last not 0.
\* the limbs T up to the last that is not 0
Strip(T) ==
  SubSeq(T, 1,
         IF \A i \in 1..Len(T) : T[i] = 0 THEN 0
         ELSE CHOOSE i \in 1..Len(T) :
                T[i] # 0 /\ \A h \in (i + 1)..Len(T) : T[h] = 0)

\* the natural with limbs T, each below 2^21 and the last 0.  A carry goes
\* into limb i when the limbs are brought below 2^20 exactly when some limb
\* below i overflows and every limb between is full.
Settle(T) ==
  Strip([i \in 1..Len(T) |->
          (T[i] + (IF \E j \in 1..(i - 1) :
                        T[j] >= W /\ \A h \in (j + 1)..(i - 1) : T[h] = W - 1
                   THEN 1 ELSE 0)) % W])

\* X * c, for c below 2^11
LongMul(X, c) ==
  IF X = <<>> \/ c = 1 THEN X
  ELSE Settle([i \in 1..(Len(X) + 1) |->
            (IF i <= Len(X) THEN (X[i] * c) % W ELSE 0)
              + (IF i > 1 THEN (X[i - 1] * c) \div W ELSE 0)])

\* X + Y
LongAdd(X, Y) ==
  IF X = <<>> THEN Y
  ELSE IF Y = <<>> THEN X
  ELSE Settle([i \in 1..((IF Len(X) > Len(Y) THEN Len(X) ELSE Len(Y)) + 1) |->
            (IF i <= Len(X) THEN X[i] ELSE 0) + (IF i <= Len(Y) THEN Y[i] ELSE 0)])

\* X * v, for a natural v
RECURSIVE LongTimes(_, _)
LongTimes(X, v) ==
  IF v < 1024 THEN LongMul(X, v)
  ELSE LongAdd(LongMul(LongTimes(X, v \div 1024), 1024), LongMul(X, v % 1024))

\* the largest k for which 10^k is a finite double
MaxPowerOfTen == 308

\* P, a sequence of powers of 625, and the next n powers
RECURSIVE Extend(_, _)
Extend(P, n) ==
  IF P # <<>> /\ n = 0 THEN P
  ELSE Extend(Append(P, LongMul(P[Len(P)], 625)), n - 1)

\* 625^0, ..., 625^j
RECURSIVE Powers625(_)
Powers625(j) ==
  IF j < 8 THEN Extend(<< <<1>> >>, j) ELSE Extend(Powers625(j - 8), 8)

\* Pow625[j + 1] is 5^(4 * j)
Pow625 == Powers625(MaxPowerOfTen \div 4)

\* the double nearest to s * N * 2^e for a natural N > 0
LongRound(s, N, e) ==
  IF Len(N) <= 4
  THEN Round(s, [i \in 1..4 |-> IF i <= Len(N) THEN N[i] ELSE 0], e, FALSE)
  ELSE Round(s, SubSeq(N, Len(N) - 3, Len(N)), e + 20 * (Len(N) - 4),
             \E i \in 1..(Len(N) - 4) : N[i] # 0)

\* the number of factors 2 of d
RECURSIVE Twos(_)
Twos(d) == IF d % 2 = 0 THEN 1 + Twos(d \div 2) ELSE 0

\* the double nearest to s * (d1.q + g) * 2^e / f2, where the fraction g is
\* not 0 exactly when d1.r is not
QuotientBy(s, d1, f2, e) == DivRound(s, BigDiv(d1.q, f2), e, d1.r # 0)

\* the double nearest to s * N * 2^e / f for naturals N > 0 and f = 5^k,
\* f below 2^20: N is moved sh bits up to 78 bits and divided in two
\* steps, by up to 625 each
QuotientAt(s, N, f, e, sh) ==
  QuotientBy(s, BigDiv(BigShl(N, sh), Min(f, 625)), f \div Min(f, 625), e - sh)

Quotient(s, N, f, e) == QuotientAt(s, N, f, e, 78 - BigLen(N))

\* the double nearest to s * n / d for naturals n > 0 and d = 2^a * 5^k
Nearest(s, n, d, a) == Quotient(s, BigOf(n), d \div Pow2(a), -a)

\* the double [s, m, e] that x is; for x = [n, d] the quotient of n by d
\* (d = 2^a * 5^k, with 5^k below 2^20) correctly rounded
ToDouble(x) ==
  IF IsBinary(x) \/ IsInf(x) \/ x.d = 0 THEN x
  ELSE IF x.n = 0 THEN Zero
  ELSE Nearest(IF x.n < 0 THEN -1 ELSE 1, Abs(x.n), x.d, Twos(x.d))

\* the sum of hs * (H + f) * 2^e and ls * L * 2^e, for naturals H >= L + 1
\* when the fraction f is not 0 (`sticky`)
AddMagnitudes(hs, ls, H, L, e, sticky) ==
  IF hs = ls THEN Round(hs, BigAdd(H, L), e, sticky)
  ELSE IF H = L /\ ~sticky THEN Zero
  ELSE IF BigLess(H, L) THEN Round(ls, BigSub(L, H), e, FALSE)
  ELSE IF sticky THEN Round(hs, BigSub(BigSub(H, L), BigOf(1)), e, TRUE)
  ELSE Round(hs, BigSub(H, L), e, FALSE)

\* hi + lo with the mantissa of hi moved `up` bits up and that of lo `down`
\* bits down, which brings both to the exponent hi.e - up
AddAligned(hi, lo, up, down) ==
  AddMagnitudes(hi.s, lo.s, BigShl(hi.m, up), BigShr(lo.m, down), hi.e - up,
                BigLow(lo.m, down) # Big0)

\* hi + lo for doubles other than 0 with hi.e >= lo.e
AddOrdered(hi, lo) ==
  AddAligned(hi, lo, Min(hi.e - lo.e, 24), hi.e - lo.e - Min(hi.e - lo.e, 24))

\* x + y for doubles written [s, m, e], Infinity, -Infinity and NaN
AddDoubles(x, y) ==
  IF x = NaN \/ y = NaN THEN NaN
  ELSE IF IsInf(x) THEN (IF IsInf(y) /\ y.inf # x.inf THEN NaN ELSE x)
  ELSE IF IsInf(y) THEN y
  ELSE IF x.s = 0 THEN y
  ELSE IF y.s = 0 THEN x
  ELSE IF x.e >= y.e THEN AddOrdered(x, y)
  ELSE AddOrdered(y, x)

\* x < y for doubles other than NaN written [s, m, e], with m of 53 bits
\* unless s = 0
LessDoubles(x, y) ==
  IF x.s # y.s THEN x.s < y.s
  ELSE IF x.s = 0 THEN FALSE
  ELSE IF x.s > 0 THEN x.e < y.e \/ (x.e = y.e /\ BigLess(x.m, y.m))
  ELSE y.e < x.e \/ (x.e = y.e /\ BigLess(y.m, x.m))

\* x < y for finite doubles: n / d with n and d small enough to multiply
\* are compared as fractions
Less(x, y) ==
  IF /\ ~IsBinary(x) /\ x.n < 32768 /\ -x.n < 32768 /\ x.d < 32768
     /\ ~IsBinary(y) /\ y.n < 32768 /\ -y.n < 32768 /\ y.d < 32768
  THEN x.n * y.d < y.n * x.d
  ELSE LessDoubles(ToDouble(x), ToDouble(y))

\* x + y
Add(x, y) == AddDoubles(ToDouble(x), ToDouble(y))

\* a / n for a double written [s, m, e], Infinity, -Infinity or NaN and a
\* whole number n, 0 < n < 2^11
DivDouble(a, n) ==
  IF IsInf(a) \/ a = NaN THEN a
  ELSE IF a.s = 0 THEN Zero
  ELSE DivRound(a.s, BigDiv(BigShl(a.m, 20), n), a.e - 20, FALSE)

\* the number that the digits of s * n / 10^4 read back as, for a whole
\* number n
FixedDigits(s, n) ==
  IF n = Big0 THEN Rat(0, 1)
  ELSE IF n[4] = 0 /\ n[3] = 0 /\ n[2] < 2048
  THEN Rat(s * (n[1] + n[2] * W), 10000)
  ELSE Quotient(s, n, 625, -4)

\* the digits of s * T * 2^-k rounded to a whole number, a half rounding
\* up: one more than the whole part when the k bits below it are a half or
\* more
FixedAt(s, T, k) ==
  FixedDigits(s,
              IF k > 0 /\ k <= 80 /\ ~BigLess(BigLow(T, k), BigShl(BigOf(1), k - 1))
              THEN BigAdd(BigShr(T, k), BigOf(1))
              ELSE IF k >= 0 THEN BigShr(T, k)
              ELSE BigShl(T, -k))

\* Number(a.toFixed(4)) for a double written [s, m, e]: a whole number of
\* 2^52 or more is written out in full and read back unchanged
FixedOf(a) ==
  IF a.s # 0 /\ a.e >= 0 THEN a
  ELSE FixedAt(a.s, BigMul(BigMul(a.m, 100), 100), -a.e)

\* Number(x.toFixed(4)): toFixed takes the whole number n for which n / 10^4
\* is nearest to the exact value of x, the larger n of two; Number reads
\* the digits back
ToFixed4(x) == FixedOf(ToDouble(x))

\* Number.isFinite(x) ? x : other
FiniteOr(x, other) == IF IsFinite(x) THEN x ELSE other

\* Number.isFinite(x) ? Number(x.toFixed(4)) : other
FixedOr(x, other) == IF IsFinite(x) THEN ToFixed4(x) ELSE other

(***************************************************************************)
(* Texts are sequences of one-character strings.                           *)
(***************************************************************************)
Digits == {"0", "1", "2", "3", "4", "5", "6", "7", "8", "9"}

DigitVal(c) ==
  CASE c = "0" -> 0 [] c = "1" -> 1 [] c = "2" -> 2 [] c = "3" -> 3
    [] c = "4" -> 4 [] c = "5" -> 5 [] c = "6" -> 6 [] c = "7" -> 7
    [] c = "8" -> 8 [] c = "9" -> 9

\* .replace(/\s+/g, '')
StripWs(s) == SelectSeq(s, LAMBDA c : c # " ")

\* .replace(',', '.'): only the first comma is replaced
ReplaceComma(s) ==
  IF \E i \in 1..Len(s) : s[i] = ","
  THEN LET k == CHOOSE i \in 1..Len(s) :
                  s[i] = "," /\ \A j \in 1..(i - 1) : s[j] # ","
       IN  [i \in 1..Len(s) |-> IF i = k THEN "." ELSE s[i]]
  ELSE s

\* .trim()
RECURSIVE TrimLeft(_)
TrimLeft(s) == IF s # <<>> /\ Head(s) = " " THEN TrimLeft(Tail(s)) ELSE s

RECURSIVE TrimRight(_)
TrimRight(s) ==
  IF s # <<>> /\ s[Len(s)] = " " THEN TrimRight(SubSeq(s, 1, Len(s) - 1)) ELSE s

Trim(s) == TrimRight(TrimLeft(s))

\* value of a digit string read as a decimal integer
RECURSIVE DigitsVal(_)
DigitsVal(s) ==
  IF s = <<>> THEN 0
  ELSE 10 * DigitsVal(SubSeq(s, 1, Len(s) - 1)) + DigitVal(s[Len(s)])

\* length of the longest prefix of s made of digits
RECURSIVE DigitRun(_)
DigitRun(s) ==
  IF s # <<>> /\ Head(s) \in Digits THEN 1 + DigitRun(Tail(s)) ELSE 0

\* the number written as  sign intpart . fracpart
Decimal(neg, ip, fp) ==
  LET v == DigitsVal(ip \o fp)
  IN  Rat(IF neg THEN -v ELSE v, Pow10(Len(fp)))

\* the number written as  sign intpart . fracpart e ex: sgn * v * 10^k with
\* v the digits and k = ex less the number of fraction digits.  A product
\* past nine digits is the double nearest to it: 10^k is 5^k * 2^k, and 5^k
\* is 625^(k \div 4) times 1, 5, 25 or 125.
Scaled(sgn, v, k) ==
  IF v = 0 THEN Rat(0, 1)
  ELSE IF k <= 0 THEN Rat(sgn * v, Pow10(-k))
  ELSE IF k <= 9 /\ v <= 2147483647 \div Pow10(k) THEN Rat(sgn * v * Pow10(k), 1)
  ELSE IF k > MaxPowerOfTen THEN Inf(sgn)
  ELSE LongRound(sgn,
                 LongTimes(LongMul(Pow625[k \div 4 + 1],
                                   IF k % 4 = 0 THEN 1 ELSE IF k % 4 = 1 THEN 5
                                   ELSE IF k % 4 = 2 THEN 25 ELSE 125),
                           v),
                 k)

\* the digits of the exponent part t (e, an optional sign, digits) and
\* what follows them
ExpBody(t) ==
  IF Len(t) >= 2 /\ t[2] \in {"+", "-"} THEN SubSeq(t, 3, Len(t)) ELSE Tail(t)

\* t begins with an exponent part
HasExp(t) == t # <<>> /\ Head(t) \in {"e", "E"} /\ DigitRun(ExpBody(t)) > 0

\* the exponent that the exponent part at the head of t writes
ExpVal(t) ==
  (IF t[2] = "-" THEN -1 ELSE 1)
    * DigitsVal(SubSeq(ExpBody(t), 1, DigitRun(ExpBody(t))))

\* the value of the decimal literal  sign ip . fp  followed by `rest`, which
\* must be empty or an exponent part to its end
NumberOf(neg, ip, fp, rest) ==
  IF rest = <<>> THEN Decimal(neg, ip, fp)
  ELSE IF HasExp(rest) /\ DigitRun(ExpBody(rest)) = Len(ExpBody(rest))
  THEN Scaled(IF neg THEN -1 ELSE 1, DigitsVal(ip \o fp), ExpVal(rest) - Len(fp))
  ELSE NaN

InfinityText == <<"I", "n", "f", "i", "n", "i", "t", "y">>

\* Number(s) for a text without whitespace over the alphabet of digits,
\* sign, point, comma, e and letters other than those of radix prefixes:
\* '' is 0, a decimal literal is its value, "Infinity" is Infinity, anything
\* else is NaN.
ToNumber(s) ==
  IF s = <<>> THEN Rat(0, 1)
  ELSE LET signed == Head(s) \in {"+", "-"}
           body   == IF signed THEN Tail(s) ELSE s
           il     == DigitRun(body)
           rest   == SubSeq(body, il + 1, Len(body))
           dotted == rest # <<>> /\ Head(rest) = "."
           frac   == IF dotted THEN Tail(rest) ELSE rest
           fl     == DigitRun(frac)
       IN  IF body = InfinityText
           THEN Inf(IF signed /\ Head(s) = "-" THEN -1 ELSE 1)
           ELSE IF il + fl > 0
           THEN NumberOf(signed /\ Head(s) = "-", SubSeq(body, 1, il),
                         SubSeq(frac, 1, fl), SubSeq(frac, fl + 1, Len(frac)))
           ELSE NaN

\* the value of the decimal literal  sign ip . fp  followed by `rest`, of
\* which an exponent part at its head belongs to the literal
FloatOf(neg, ip, fp, rest) ==
  IF HasExp(rest)
  THEN Scaled(IF neg THEN -1 ELSE 1, DigitsVal(ip \o fp), ExpVal(rest) - Len(fp))
  ELSE Decimal(neg, ip, fp)

\* parseFloat(s): the longest prefix of s that is a decimal literal or
\* "Infinity"
ParseFloat(s0) ==
  LET s      == TrimLeft(s0)
      signed == s # <<>> /\ Head(s) \in {"+", "-"}
      body   == IF signed THEN Tail(s) ELSE s
      il     == DigitRun(body)
      rest   == SubSeq(body, il + 1, Len(body))
      dotted == rest # <<>> /\ Head(rest) = "."
      fl     == IF dotted THEN DigitRun(Tail(rest)) ELSE 0
  IN  IF Len(body) >= 8 /\ SubSeq(body, 1, 8) = InfinityText
      THEN Inf(IF signed /\ Head(s) = "-" THEN -1 ELSE 1)
      ELSE IF il + fl > 0
      THEN FloatOf(signed /\ Head(s) = "-", SubSeq(body, 1, il),
                   IF dotted THEN SubSeq(rest, 2, fl + 1) ELSE <<>>,
                   IF dotted THEN SubSeq(rest, fl + 2, Len(rest)) ELSE rest)
      ELSE NaN

\* parseNum; txt is a text or NoText.  String(txt || '') is '' for
\* null, undefined and ''.
parseNum(txt) ==
  FiniteOr(ToNumber(ReplaceComma(StripWs(IF txt = NoText THEN <<>> ELSE txt))),
           NaN)

\* parseNum of src/unnamed/part_001, which returns NaN for a falsy argument
\* before normalising
parseNum_part_001(txt) ==
  IF txt = NoText \/ txt = <<>> THEN NaN
  ELSE FiniteOr(ToNumber(ReplaceComma(StripWs(txt))), NaN)

(***************************************************************************)
(* The fintech page: a sequence of exchange-house entries, each with the   *)
(* alt text of its image (NoText when there is none) and the texts of its  *)
(* price elements.                                                         *)
(***************************************************************************)
Entry(alt, prices) == [alt |-> alt, prices |-> prices]

\* el.textContent?.trim() || ''
PriceText(t) == IF t = NoText THEN <<>> ELSE Trim(t)

\* the function evaluated in the page by scrapeFintechAverages
RECURSIVE EvaluateRows(_)
EvaluateRows(entries) ==
  IF entries = <<>> THEN <<>>
  ELSE LET it   == Head(entries)
           name == IF it.alt = NoText \/ Trim(it.alt) = <<>>
                   THEN <<"N", "/", "A">> ELSE Trim(it.alt)
       IN  (IF Len(it.prices) >= 2
            THEN <<[name |-> name, buy  |-> PriceText(it.prices[1]),
                                   sell |-> PriceText(it.prices[2])]>>
            ELSE <<>>) \o EvaluateRows(Tail(entries))

\* s.reduce((a,b)=>a+b, acc)
RECURSIVE Reduce(_, _)
Reduce(acc, s) == IF s = <<>> THEN acc ELSE Reduce(Add(acc, Head(s)), Tail(s))

\* s.reduce((a,b)=>a+b,0)
SumSeq(s) == Reduce(Zero, s)

\* xs.length ? xs.reduce((a,b)=>a+b,0)/xs.length : NaN
Mean(xs) ==
  IF Len(xs) = 0 THEN NaN
  ELSE DivDouble(ToDouble(SumSeq(xs)), Len(xs))

Valid(n) == IsFinite(n) /\ Positive(n)

\* FintechResult that counts the rows with a valid buy price
FintechResultCountsQuoted(rows) ==
  [bidAvg |-> Mean(SelectSeq([i \in 1..Len(rows) |-> parseNum(rows[i].buy)],
                             Valid)),
   askAvg |-> Mean(SelectSeq([i \in 1..Len(rows) |-> parseNum(rows[i].sell)],
                             Valid)),
   sampleCount |-> Len(SelectSeq([i \in 1..Len(rows) |-> parseNum(rows[i].buy)],
                                 Valid)),
   raw |-> rows]

\* the value scrapeFintechAverages returns for the rows read from the page
FintechResult(rows) ==
  [bidAvg |-> Mean(SelectSeq([i \in 1..Len(rows) |-> parseNum(rows[i].buy)],
                             Valid)),
   askAvg |-> Mean(SelectSeq([i \in 1..Len(rows) |-> parseNum(rows[i].sell)],
                             Valid)),
   sampleCount |-> Len(rows),
   raw |-> rows]

\* the function evaluated in the page by scrapeBloombergSpot; el is the text
\* of h2.px-last, or NoText when the page has no such element
EvaluateSpot(el) ==
  IF el = NoText THEN Null
  ELSE FiniteOr(ParseFloat(ReplaceComma(Trim(el))), Null)

\* the value scrapeBloombergSpot returns
SpotResult(el) == FixedOr(EvaluateSpot(el), NaN)

(***************************************************************************)
(* Rankings.  Array.prototype.sort is stable, so [0] of the sorted array   *)
(* is the first of the minimal (maximal) candidates in encounter order.    *)
(***************************************************************************)
\* FirstSorted under a sort that puts the last of equal candidates first
FirstSortedLastWins(cands, keys, desc) ==
  IF cands = <<>> THEN Null
  ELSE LET before(i, j) == IF desc THEN Less(keys[j], keys[i])
                                   ELSE Less(keys[i], keys[j])
           k == CHOOSE i \in 1..Len(cands) :
                  /\ \A j \in 1..Len(cands) : ~before(j, i)
                  /\ \A j \in (i + 1)..Len(cands) : before(i, j)
       IN  cands[k]

\* cands.sort(cmp)[0] || null, where keys[i] is the value cmp compares for
\* cands[i] and desc tells whether cmp sorts in descending order
FirstSorted(cands, keys, desc) ==
  IF cands = <<>> THEN Null
  ELSE LET before(i, j) == IF desc THEN Less(keys[j], keys[i])
                                   ELSE Less(keys[i], keys[j])
           k == CHOOSE i \in 1..Len(cands) :
                  /\ \A j \in 1..Len(cands) : ~before(j, i)
                  /\ \A j \in 1..(i - 1) : before(i, j)
       IN  cands[k]

\* the first of cands by ascending buy
FirstByBuy(cands) ==
  FirstSorted(cands, [i \in 1..Len(cands) |-> cands[i].buy], FALSE)

\* the first of cands by descending sell
FirstBySell(cands) ==
  FirstSorted(cands, [i \in 1..Len(cands) |-> cands[i].sell], TRUE)

BestBuy(finv) ==
  IF finv # Null /\ Len(finv.raw) > 0
  THEN FirstByBuy(SelectSeq([i \in 1..Len(finv.raw) |->
                               [name |-> finv.raw[i].name,
                                buy  |-> parseNum(finv.raw[i].sell)]],
                            LAMBDA f : Valid(f.buy)))
  ELSE Null

BestSell(finv) ==
  IF finv # Null /\ Len(finv.raw) > 0
  THEN FirstBySell(SelectSeq([i \in 1..Len(finv.raw) |->
                                [name |-> finv.raw[i].name,
                                 sell |-> parseNum(finv.raw[i].buy)]],
                             LAMBDA f : Valid(f.sell)))
  ELSE Null

(***************************************************************************)
(* Time stamps.  An instant is a number of clock ticks since the epoch;    *)
(* its ISO form is the pair of its UTC date and its time of day.           *)
(***************************************************************************)
ToISOString(t) == [date |-> t \div DayLen, time |-> t % DayLen]

\* iso.split('T')[0]
DatePart(iso) == iso.date

\* Field that writes a missing value as 0
FieldZeroForMissing(x) == IF IsFinite(x) THEN ToFixed4(x) ELSE Rat(0, 1)

\* Number.isFinite(x) ? Number(x.toFixed(4)) : null
Field(x) == IF IsFinite(x) THEN ToFixed4(x) ELSE Null

\* the point built by runOnceSafe from its locals
Point(tsv, finv, spotv) ==
  [timestamp   |-> ToISOString(tsv),
   bid_avg     |-> Field(IF finv = Null THEN NaN ELSE finv.bidAvg),
   ask_avg     |-> Field(IF finv = Null THEN NaN ELSE finv.askAvg),
   spot        |-> Field(spotv),
   bestBuy     |-> BestBuy(finv),
   bestSell    |-> BestSell(finv),
   sampleCount |-> IF finv = Null THEN 0 ELSE finv.sampleCount]

\* AppendPoint with the cap tested before the push instead of after it
AppendPointShiftFirst(series, point, today) ==
  LET kept == SelectSeq(series, LAMBDA p : DatePart(p.timestamp) = today)
  IN  Append(IF Len(kept) > Cap THEN Tail(kept) ELSE kept, point)

\* AppendPoint that blanks the spot of the members it keeps
AppendPointClearsSpot(series, point, today) ==
  LET kept   == SelectSeq(series, LAMBDA p : DatePart(p.timestamp) = today)
      pushed == Append([i \in 1..Len(kept) |-> [kept[i] EXCEPT !.spot = Null]],
                       point)
  IN  IF Len(pushed) > Cap THEN Tail(pushed) ELSE pushed

\* AppendPoint that drops the newest member instead of the oldest
AppendPointPopsLast(series, point, today) ==
  LET kept   == SelectSeq(series, LAMBDA p : DatePart(p.timestamp) = today)
      pushed == Append(kept, point)
  IN  IF Len(pushed) > Cap THEN SubSeq(pushed, 1, Cap) ELSE pushed

\* filter by today's date, push, shift when over the cap
AppendPoint(series, point, today) ==
  LET kept   == SelectSeq(series, LAMBDA p : DatePart(p.timestamp) = today)
      pushed == Append(kept, point)
  IN  IF Len(pushed) > Cap THEN Tail(pushed) ELSE pushed


(***************************************************************************)
(* What the two scraped pages may show in a cycle.                         *)
(***************************************************************************)
T350 == <<"3", ",", "5", "0">>
T352 == <<"3", ",", "5", "2">>
T354 == <<"3", ".", "5", "4">>
T355 == <<"3", ",", "5", "5">>

\* a price that is a finite double, and twice which is none
THuge == <<"1", "e", "3", "0", "8">>

\* two houses with valid quotes (the second without an image)
PageQuotes ==
  <<Entry(<<"A">>, <<T350, T355>>), Entry(NoText, <<T352, T354>>)>>

\* one house with a single price element, one whose texts are no quotes
PageNoQuotes ==
  <<Entry(<<"B">>, <<T350>>), Entry(<<"C">>, <<<<"0">>, <<"-">>>>)>>

\* two houses whose buy prices are finite and add up to Infinity
PageHuge ==
  <<Entry(<<"H">>, <<THuge, T355>>), Entry(<<"I">>, <<THuge, T354>>)>>

FintechPages == {PageQuotes, PageNoQuotes, PageHuge}

SpotTexts == {NoText, <<" ", "3", ",", "7", "5">>, <<"n", "/", "a">>}

SeqsUpTo(S, n) == UNION {[1..k -> S] : k \in 0..n}

\* the pages of up to MaxEntries entries; an entry may have two, one, no
\* and three price elements, with and without an image, with quotes and
\* with texts that are no quotes
Pages ==
  SeqsUpTo({Entry(<<"A">>, <<T350, T355>>),
            Entry(NoText, <<T352>>),
            Entry(<<"C">>, <<<<"0">>, <<"-">>>>),
            Entry(<<"D">>, <<>>),
            Entry(<<" ", "E">>, <<<<" ", "3", ",", "5">>, NoText, T355>>)},
           MaxEntries)

(***************************************************************************)
(* The extractors' results and the points built from them, for what the    *)
(* pages above show.  TLC computes a constant once, and @@ makes it        *)
(* tabulate a function, so the actions of the server read these tables     *)
(* where the code calls the functions.                                     *)
(***************************************************************************)
\* scrapeFintechAverages on each page
Averages ==
  [entries \in FintechPages \cup Pages |-> FintechResult(EvaluateRows(entries))]
    @@ <<>>

\* scrapeBloombergSpot on each text
Spots == [el \in SpotTexts |-> SpotResult(el)] @@ <<>>

Range(f) == {f[x] : x \in DOMAIN f}

\* the values runOnceSafe's locals fin and spot may have
FinValues == {Null} \cup Range(Averages)

SpotValues == {NaN} \cup Range(Spots)

\* the point of each pair of locals, at instant 0
Points ==
  [finv \in FinValues, spotv \in SpotValues |-> Point(0, finv, spotv)] @@ <<>>

\* Point(tsv, finv, spotv) read from Points
PointAt(tsv, finv, spotv) ==
  [Points[finv, spotv] EXCEPT !.timestamp = ToISOString(tsv)]

(***************************************************************************)
(* State.                                                                  *)
(***************************************************************************)
VARIABLES
  now,         \* the wall clock (an instant)
  started,     \* the listen callback has run startBackgroundLoop
  nStarted,    \* number of runOnceSafe calls so far
  pc,          \* per cycle: the await it is suspended at, "idle" or "done"
  ts,          \* per cycle: its local ts
  b,           \* per cycle: its local b, the engine launchBrowser returned (0: none)
  page,        \* per cycle: its page: "none", "open", or "closed" once
               \* page.close() has been called
  fin,         \* per cycle: its local fin
  spot,        \* per cycle: its local spot
  tried,       \* per cycle: the extractors that have settled, in order
  result,      \* per cycle: state of the promise returned by runOnceSafe
  crashed,     \* the process died of an unhandled rejection; nothing runs after
  browser,     \* the module variable browser (0: undefined, else an engine)
  launched,    \* number of engines puppeteer.launch has created
  liveSeries,  \* the module variable liveSeries
  connected,   \* the sockets connected now
  inbox,       \* per socket: the events emitted to it, in order
  log,         \* every point pushed onto liveSeries, in order
  emitted,     \* every point passed to io.emit('tick', ...), in order
  connAt,      \* per socket: Len(log) when it connected (-1: not yet)
  discAt,      \* per socket: Len(log) when it disconnected (-1: not yet)
  calls,       \* number of runOnceSafe calls since the process started
  fires,       \* number of times the setInterval timer has fired
  given,       \* the arguments of a function applied on its own (FnSpec)
  got,         \* what that function returned
  retry,       \* per cycle: its latest withRetries call with its events so
               \* far and, until its first attempt settles, the events of
               \* the call before it (src/unnamed/part_000)
  signal       \* the SIGINT/SIGTERM handler (src/unnamed/part_000): "none",
               \* "closing" while it awaits browser.close(), or "exited"
               \* once it has called process.exit(0)

cycleVars  == <<pc, ts, b, page, fin, spot, tried, result>>
engineVars == <<browser, launched>>
seriesVars == <<liveSeries, inbox, log, emitted>>
socketVars == <<connected, connAt, discAt>>
loopVars   == <<calls, fires>>
callVars   == <<given, got>>
otherVars  == <<callVars, retry, signal>>
vars == <<now, started, nStarted, cycleVars, crashed, engineVars, seriesVars,
          socketVars, loopVars, otherVars>>

\* no function is being applied on its own
NoCall == [kind |-> "none"]

\* no withRetries call has been made
NoRetry == [retries |-> 0, delayMs |-> 0, i |-> 0, lastErr |-> Null,
            sleeping |-> FALSE, before |-> <<>>, events |-> <<>>]

Cycles == 1..MaxCycles
Subs   == 1..MaxSubs

\* the process is up: it has neither died of an unhandled rejection nor
\* called process.exit
Running == ~crashed /\ signal # "exited"

\* The state of the server after `earlier` cycles of the current day, all of
\* which failed to launch an engine and left their all-absent points in
\* liveSeries; earlier = 0 is the process just constructed.
ServerInit(earlier) ==
  /\ now = 0
  /\ started = (earlier > 0)
  /\ liveSeries = [i \in 1..earlier |-> PointAt(0, Null, NaN)]
  /\ log = liveSeries
  /\ emitted = liveSeries
  /\ calls = earlier
  /\ fires = IF earlier > 0 THEN earlier - 1 ELSE 0
  /\ nStarted = 0
  /\ pc = [c \in Cycles |-> "idle"]
  /\ ts = [c \in Cycles |-> 0]
  /\ b = [c \in Cycles |-> 0]
  /\ page = [c \in Cycles |-> "none"]
  /\ fin = [c \in Cycles |-> Null]
  /\ spot = [c \in Cycles |-> NaN]
  /\ tried = [c \in Cycles |-> <<>>]
  /\ result = [c \in Cycles |-> "none"]
  /\ crashed = FALSE
  /\ signal = "none"
  /\ browser = 0
  /\ launched = 0
  /\ connected = {}
  /\ inbox = [s \in Subs |-> <<>>]
  /\ connAt = [s \in Subs |-> -1]
  /\ discAt = [s \in Subs |-> -1]

\* The process has just been constructed, or it has been up for a while.
Init ==
  /\ \E earlier \in {0, Cap - 1} : ServerInit(earlier)
  /\ given = NoCall
  /\ got = NoCall
  /\ retry = [c \in Cycles |-> NoRetry]

(***************************************************************************)
(* Control flow of runOnceSafe.                                            *)
(***************************************************************************)
\* OnThrow with b.newPage() awaited outside the try block
OnThrowNewPageEscapes(site) ==
  CASE site = "launchBrowser" -> "tail"
    [] site = "newPage"       -> "reject"
    [] site = "setUserAgent"  -> "tail"
    [] site = "fintech"       -> "spot"
    [] site = "spot"          -> "close"
    [] site = "close"         -> "tail"

\* OnThrow with both extractors in one try block: a fintech failure skips
\* the spot extractor
OnThrowSharedTry(site) ==
  CASE site = "launchBrowser" -> "tail"
    [] site = "newPage"       -> "tail"
    [] site = "setUserAgent"  -> "tail"
    [] site = "fintech"       -> "close"
    [] site = "spot"          -> "close"
    [] site = "close"         -> "tail"

\* where control continues when the promise awaited at `site` rejects:
\* at another await, at the synchronous "tail" that builds, stores and emits
\* the point, or nowhere ("reject": the error leaves runOnceSafe)
OnThrow(site) ==
  CASE site = "launchBrowser" -> "tail"
    [] site = "newPage"       -> "tail"
    [] site = "setUserAgent"  -> "tail"
    [] site = "fintech"       -> "spot"
    [] site = "spot"          -> "close"
    [] site = "close"         -> "tail"

\* Emit that reaches every socket, connected or not
EmitToAll(inb, conn, point) ==
  [s \in Subs |-> Append(inb[s], [kind |-> "tick", point |-> point])]

\* io.emit('tick', point)
Emit(inb, conn, point) ==
  [s \in Subs |-> IF s \in conn
                  THEN Append(inb[s], [kind |-> "tick", point |-> point])
                  ELSE inb[s]]

\* RunTail that emits no tick for a point without any data
RunTailSkipsEmpty(c, finv, spotv) ==
  LET point == PointAt(ts[c], finv, spotv)
      today == DatePart(ToISOString(now))
      empty == finv = Null /\ ~IsFinite(spotv)
  IN  /\ liveSeries' = AppendPoint(liveSeries, point, today)
      /\ inbox' = IF empty THEN inbox ELSE Emit(inbox, connected, point)
      /\ log' = Append(log, point)
      /\ emitted' = IF empty THEN emitted ELSE Append(emitted, point)
      /\ result' = [result EXCEPT ![c] = "fulfilled"]
      /\ UNCHANGED crashed

\* RunTail that writes back a stale series: the points stamped after this
\* cycle began, pushed by cycles that overtook it, are lost
RunTailStaleSeries(c, finv, spotv) ==
  LET point == PointAt(ts[c], finv, spotv)
      today == DatePart(ToISOString(now))
      stale == SelectSeq(liveSeries, LAMBDA p :
                 \/ p.timestamp.date < point.timestamp.date
                 \/ /\ p.timestamp.date = point.timestamp.date
                    /\ p.timestamp.time <= point.timestamp.time)
  IN  /\ liveSeries' = AppendPoint(stale, point, today)
      /\ inbox' = Emit(inbox, connected, point)
      /\ log' = Append(log, point)
      /\ emitted' = Append(emitted, point)
      /\ result' = [result EXCEPT ![c] = "fulfilled"]
      /\ UNCHANGED crashed

\* RunTail that emits only once every connected socket has no event
\* outstanding beyond its boot
RunTailAwaitsDelivery(c, finv, spotv) ==
  LET point == PointAt(ts[c], finv, spotv)
      today == DatePart(ToISOString(now))
  IN  /\ \A s \in connected : Len(inbox[s]) < 2
      /\ liveSeries' = AppendPoint(liveSeries, point, today)
      /\ inbox' = Emit(inbox, connected, point)
      /\ log' = Append(log, point)
      /\ emitted' = Append(emitted, point)
      /\ result' = [result EXCEPT ![c] = "fulfilled"]
      /\ UNCHANGED crashed

\* the end of runOnceSafe, from `let bestBuy` to io.emit: no await in it
RunTail(c, finv, spotv) ==
  \E point \in {PointAt(ts[c], finv, spotv)} :
    /\ liveSeries' = AppendPoint(liveSeries, point, DatePart(ToISOString(now)))
    /\ inbox' = Emit(inbox, connected, point)
    /\ log' = Append(log, point)
    /\ emitted' = Append(emitted, point)
    /\ result' = [result EXCEPT ![c] = "fulfilled"]
    /\ UNCHANGED crashed

\* control of cycle c reaches `target` with locals finv, spotv and page pagev;
\* the locals ts, fin and spot are gone once the function has returned
Goto(c, target, finv, spotv, pagev) ==
  /\ page' = [page EXCEPT ![c] = IF target = "close" THEN "closed" ELSE pagev]
  /\ IF target \in {"tail", "reject"}
     THEN /\ ts' = [ts EXCEPT ![c] = 0]
          /\ fin' = [fin EXCEPT ![c] = Null]
          /\ spot' = [spot EXCEPT ![c] = NaN]
     ELSE /\ ts' = ts
          /\ fin' = [fin EXCEPT ![c] = finv]
          /\ spot' = [spot EXCEPT ![c] = spotv]
  /\ CASE target = "tail" ->
            /\ pc' = [pc EXCEPT ![c] = "done"]
            /\ RunTail(c, finv, spotv)
       [] target = "reject" ->
            /\ pc' = [pc EXCEPT ![c] = "done"]
            /\ result' = [result EXCEPT ![c] = "rejected"]
            /\ crashed' = TRUE
            /\ UNCHANGED seriesVars
       [] OTHER ->
            /\ pc' = [pc EXCEPT ![c] = target]
            /\ UNCHANGED <<seriesVars, result, crashed>>

Tried(c, site, ok, entries) ==
  tried' = [tried EXCEPT ![c] =
              Append(@, [site |-> site, ok |-> ok, entries |-> entries])]

\* runOnceSafe is called: ts is taken and launchBrowser runs up to its first
\* await (or returns the engine it finds in browser)
Begin(c) ==
  /\ ts' = [ts EXCEPT ![c] = now]
  /\ IF browser # 0
     THEN /\ b' = [b EXCEPT ![c] = browser]
          /\ pc' = [pc EXCEPT ![c] = "newPage"]
     ELSE /\ b' = b
          /\ pc' = [pc EXCEPT ![c] = "launch1"]
  /\ result' = [result EXCEPT ![c] = "pending"]
  /\ calls' = calls + 1
  /\ UNCHANGED <<page, fin, spot, tried, crashed, engineVars, seriesVars,
                 otherVars>>

\* server.listen's callback: startBackgroundLoop
Listen ==
  /\ Running
  /\ ~started
  /\ started' = TRUE
  /\ nStarted' = 1
  /\ Begin(1)
  /\ UNCHANGED <<now, socketVars, fires>>

\* TimerFire that starts no cycle while an earlier one is still running
TimerFireSkipsBusy ==
  /\ Running
  /\ started
  /\ nStarted < MaxCycles
  /\ fires < MaxCycles
  /\ fires' = fires + 1
  /\ IF \E c \in Cycles : result[c] = "pending"
     THEN UNCHANGED <<nStarted, calls, cycleVars, crashed, engineVars, seriesVars,
                      otherVars>>
     ELSE /\ nStarted' = nStarted + 1
          /\ Begin(nStarted + 1)
  /\ UNCHANGED <<now, started, socketVars>>

\* the setInterval timer fires
TimerFire ==
  /\ Running
  /\ started
  /\ nStarted < MaxCycles
  /\ nStarted' = nStarted + 1
  /\ fires' = fires + 1
  /\ Begin(nStarted + 1)
  /\ UNCHANGED <<now, started, socketVars>>

\* puppeteer.launch has created an engine for cycle c
Launched(c) ==
  /\ launched' = launched + 1
  /\ browser' = launched + 1
  /\ b' = [b EXCEPT ![c] = launched + 1]
  /\ Goto(c, "newPage", fin[c], spot[c], page[c])

\* the launch with channel 'chrome' settles
Launch1(c) ==
  /\ Running
  /\ UNCHANGED <<loopVars, otherVars>>
  /\ pc[c] = "launch1"
  /\ \/ /\ Launched(c)
     \/ /\ UNCHANGED <<b, engineVars>>
        /\ \E execPath \in BOOLEAN :
             IF execPath
             THEN Goto(c, "launch2", fin[c], spot[c], page[c])
             ELSE Goto(c, OnThrow("launchBrowser"), fin[c], spot[c], page[c])
  /\ UNCHANGED <<now, started, nStarted, tried, socketVars>>

\* the launch with executablePath settles
Launch2(c) ==
  /\ Running
  /\ UNCHANGED <<loopVars, otherVars>>
  /\ pc[c] = "launch2"
  /\ \/ /\ Launched(c)
     \/ /\ UNCHANGED <<b, engineVars>>
        /\ Goto(c, OnThrow("launchBrowser"), fin[c], spot[c], page[c])
  /\ UNCHANGED <<now, started, nStarted, tried, socketVars>>

\* b.newPage() settles
NewPage(c) ==
  /\ Running
  /\ UNCHANGED <<loopVars, otherVars>>
  /\ pc[c] = "newPage"
  /\ \/ /\ Goto(c, "setUserAgent", fin[c], spot[c], "open")
     \/ /\ Goto(c, OnThrow("newPage"), fin[c], spot[c], page[c])
  /\ UNCHANGED <<now, started, nStarted, b, tried, engineVars, socketVars>>

\* page.setUserAgent() settles
SetUserAgent(c) ==
  /\ Running
  /\ UNCHANGED <<loopVars, otherVars>>
  /\ pc[c] = "setUserAgent"
  /\ \/ /\ Goto(c, "fintech", fin[c], spot[c], page[c])
     \/ /\ Goto(c, OnThrow("setUserAgent"), fin[c], spot[c], page[c])
  /\ UNCHANGED <<now, started, nStarted, b, tried, engineVars, socketVars>>

\* scrapeFintechAverages(page) settles
FintechOn(c, pages) ==
  /\ Running
  /\ UNCHANGED <<loopVars, otherVars>>
  /\ pc[c] = "fintech"
  /\ \/ \E entries \in pages :
          /\ Goto(c, "spot", Averages[entries], spot[c], page[c])
          /\ Tried(c, "fintech", TRUE, entries)
     \/ /\ Goto(c, OnThrow("fintech"), fin[c], spot[c], page[c])
        /\ Tried(c, "fintech", FALSE, <<>>)
  /\ UNCHANGED <<now, started, nStarted, b, engineVars, socketVars>>

\* scrapeFintechAverages(page) settles, on one of the pages of FintechPages
Fintech(c) == FintechOn(c, FintechPages)

\* scrapeBloombergSpot(page) settles
Spot(c) ==
  /\ Running
  /\ UNCHANGED <<loopVars, otherVars>>
  /\ pc[c] = "spot"
  /\ \/ /\ \E el \in SpotTexts :
             Goto(c, "close", fin[c], Spots[el], page[c])
        /\ Tried(c, "spot", TRUE, <<>>)
     \/ /\ Goto(c, OnThrow("spot"), fin[c], spot[c], page[c])
        /\ Tried(c, "spot", FALSE, <<>>)
  /\ UNCHANGED <<now, started, nStarted, b, engineVars, socketVars>>

\* page.close() settles
Close(c) ==
  /\ Running
  /\ UNCHANGED <<loopVars, otherVars>>
  /\ pc[c] = "close"
  /\ \/ /\ Goto(c, "tail", fin[c], spot[c], page[c])
     \/ /\ Goto(c, OnThrow("close"), fin[c], spot[c], page[c])
  /\ UNCHANGED <<now, started, nStarted, b, tried, engineVars, socketVars>>

(***************************************************************************)
(* Sockets and the clock.                                                  *)
(***************************************************************************)
\* io.on('connection', s => s.emit('boot', liveSeries))
Connect(s) ==
  /\ Running
  /\ UNCHANGED <<loopVars, otherVars>>
  /\ started
  /\ connAt[s] = -1
  /\ connected' = connected \cup {s}
  /\ inbox' = [inbox EXCEPT ![s] = Append(@, [kind |-> "boot", series |-> liveSeries])]
  /\ connAt' = [connAt EXCEPT ![s] = Len(log)]
  /\ UNCHANGED <<now, started, nStarted, cycleVars, crashed, engineVars,
                 liveSeries, log, emitted, discAt>>

\* a socket goes away
Disconnect(s) ==
  /\ Running
  /\ UNCHANGED <<loopVars, otherVars>>
  /\ s \in connected
  /\ connected' = connected \ {s}
  /\ discAt' = [discAt EXCEPT ![s] = Len(log)]
  /\ UNCHANGED <<now, started, nStarted, cycleVars, crashed, engineVars,
                 seriesVars, connAt>>

\* time passes
Tick ==
  /\ Running
  /\ UNCHANGED <<loopVars, otherVars>>
  /\ now < MaxTime
  /\ now' = now + 1
  /\ UNCHANGED <<started, nStarted, cycleVars, crashed, engineVars, seriesVars,
                 socketVars>>

Next ==
  \/ Listen
  \/ TimerFire
  \/ \E c \in Cycles : Launch1(c)
  \/ \E c \in Cycles : Launch2(c)
  \/ \E c \in Cycles : NewPage(c)
  \/ \E c \in Cycles : SetUserAgent(c)
  \/ \E c \in Cycles : Fintech(c)
  \/ \E c \in Cycles : Spot(c)
  \/ \E c \in Cycles : Close(c)
  \/ \E s \in Subs : Connect(s)
  \/ \E s \in Subs : Disconnect(s)
  \/ Tick

Spec == Init /\ [][Next]_vars

(***************************************************************************)
(* The pure functions applied on their own: parseNum to a text, the two    *)
(* extractors to what their pages show, the point builder to what the      *)
(* extractors returned.  The server stays as constructed meanwhile.        *)
(***************************************************************************)
Chars == {"3", "0", ",", ".", "-", " ", "a"}

\* the arguments of parseNum: every text of up to MaxText characters, and
\* null / undefined
Texts == SeqsUpTo(Chars, MaxText) \cup {NoText}

Offer(name, buy, sell) == [name |-> name, buy |-> buy, sell |-> sell]

\* the rows page.evaluate may return: quotes that tie on the buy or on the
\* sell side, a zero and a negative price, a non-numeric and an empty text,
\* a quote on the buy side only and a quote on the sell side only, a quote
\* whose mean with that of A is halfway between two four-decimal numbers, a
\* quote whose buy price is finite and gives Infinity when added to itself
Offers ==
  {Offer(<<"A">>, T350, T355),
   Offer(<<"B">>, T352, T354),
   Offer(<<"C">>, T352, T355),
   Offer(<<"D">>, <<"0">>, <<"-", "3">>),
   Offer(<<"E">>, <<"a">>, <<>>),
   Offer(<<"F">>, T350, <<"3", ",", "5", "4">>),
   Offer(<<"G">>, T352, <<"-">>),
   Offer(<<"H">>, <<"0">>, T355),
   Offer(<<"I">>, <<"3", ",", "5", "0", "0", "1">>,
                  <<"3", ",", "5", "5", "0", "1">>),
   Offer(<<"J">>, THuge, T355)}

\* the texts h2.px-last may show (NoText: no such element)
SpotCases ==
  SpotTexts \cup {<<>>, <<"0">>, <<"0", ",", "0", "0">>,
                  <<"3", ".", "7", "5", "1", "2", "6">>, <<"3", ",", "7", "x">>,
                  <<"3", ".", "7", "5", "1", "3", "5">>,
                  <<"3", "7", "5", "e", "-", "2">>, <<"1", "e", "3", "0", "9">>,
                  <<"3", "e">>}

\* what a cycle may get from its two extractors: each either throws or
\* works on what its page shows
Cases ==
  LET fins  == {[ok |-> FALSE, rows |-> <<>>]}
                 \cup {[ok |-> TRUE, rows |-> r] : r \in SeqsUpTo(Offers, MaxRows)}
      spots == {[ok |-> FALSE, el |-> NoText]}
                 \cup {[ok |-> TRUE, el |-> e] : e \in SpotCases}
  IN  {[kind |-> "cycle", finOk |-> f.ok, rows |-> f.rows,
        spotOk |-> sp.ok, el |-> sp.el] : f \in fins, sp \in spots}

FnInit ==
  /\ ServerInit(0)
  /\ given \in {[kind |-> "text", txt |-> t] : t \in Texts} \cup Cases
  /\ got = NoCall
  /\ retry = [c \in Cycles |-> NoRetry]

serverVars == <<now, started, nStarted, cycleVars, crashed, engineVars,
                seriesVars, socketVars, loopVars>>

\* parseNum(txt), in src/server.js and in src/unnamed/part_001
CallParseNum ==
  /\ given.kind = "text"
  /\ got = NoCall
  /\ got' = [kind |-> "number", v |-> parseNum(given.txt),
             v1 |-> parseNum_part_001(given.txt)]
  /\ UNCHANGED <<given, retry, signal, serverVars>>

\* the two try blocks of runOnceSafe around the extractors
CallExtractors ==
  /\ given.kind = "cycle"
  /\ got = NoCall
  /\ got' = [kind |-> "extracted",
             fin  |-> IF given.finOk THEN FintechResult(given.rows) ELSE Null,
             spot |-> IF given.spotOk THEN SpotResult(given.el) ELSE NaN]
  /\ UNCHANGED <<given, retry, signal, serverVars>>

\* runOnceSafe builds its point from fin and spot
BuildPoint ==
  /\ got.kind = "extracted"
  /\ got' = [kind |-> "point", fin |-> got.fin, spot |-> got.spot,
             point |-> Point(now, got.fin, got.spot)]
  /\ UNCHANGED <<given, retry, signal, serverVars>>

FnNext ==
  \/ CallParseNum
  \/ CallExtractors
  \/ BuildPoint

FnSpec == FnInit /\ [][FnNext]_vars

(***************************************************************************)
(* The cycles of src/server.js at one instant and with no socket, over     *)
(* every fintech page of up to MaxEntries entries.                         *)
(***************************************************************************)
\* scrapeFintechAverages(page) settles, on any page
FintechAnyPage(c) == FintechOn(c, Pages)

PageInit ==
  /\ ServerInit(0)
  /\ given = NoCall
  /\ got = NoCall
  /\ retry = [c \in Cycles |-> NoRetry]

PageNext ==
  \/ Listen
  \/ TimerFire
  \/ \E c \in Cycles : Launch1(c)
  \/ \E c \in Cycles : Launch2(c)
  \/ \E c \in Cycles : NewPage(c)
  \/ \E c \in Cycles : SetUserAgent(c)
  \/ \E c \in Cycles : FintechAnyPage(c)
  \/ \E c \in Cycles : Spot(c)
  \/ \E c \in Cycles : Close(c)

PageSpec == PageInit /\ [][PageNext]_vars

(***************************************************************************)
(* The server of src/unnamed/part_000: runOnceSafe and launchBrowser are   *)
(* as in src/server.js, with two more awaited set-up calls, the extractors *)
(* navigate and wait for their element through withRetries, and a handler  *)
(* of SIGINT and SIGTERM closes the engine and ends the process.  What the *)
(* pages show is left out: an extractor that returns found nothing on its  *)
(* page.                                                                   *)
(***************************************************************************)
\* the default of the parameter delayMs of withRetries
DefaultDelayMs == 2000

\* the awaits of the extractors that go through withRetries
RetrySites ==
  {"fintech.goto", "fintech.waitForSelector", "spot.goto", "spot.waitForSelector"}

\* the argument `retries` at each call of withRetries
RetriesAt(site) == IF site = "spot.waitForSelector" THEN 1 ELSE 2

Extractor(site) ==
  IF site \in {"fintech.goto", "fintech.waitForSelector", "fintech.evaluate"}
  THEN "fintech" ELSE "spot"

\* an event of a withRetries call: fn is called for the i-th time ("call"),
\* that attempt fails ("fail"), sleep is called ("sleep"), withRetries
\* returns ("return") or throws ("throw")
Ev(site, i, ev, val) == [site |-> site, i |-> i, ev |-> ev, val |-> val]

\* withRetries is entered: i = 0 and fn is called; the events of the call
\* that ended last are kept in `before` until this attempt settles
withRetries(call, site, retries, delayMs) ==
  [retries |-> retries, delayMs |-> delayMs, i |-> 0, lastErr |-> Null,
   sleeping |-> FALSE, before |-> call.events,
   events |-> <<Ev(site, 0, "call", Null)>>]

\* return await fn()
Returned(call, site) ==
  [call EXCEPT !.before = <<>>,
               !.events =
     Append(@, Ev(site, call.i, "return", [res |-> site, at |-> call.i]))]

\* AfterFailure that sleeps delayMs after every failed attempt
AfterFailureFlatDelay(call, site) ==
  LET e      == [err |-> site, at |-> call.i]
      failed == Append(call.events, Ev(site, call.i, "fail", e))
  IN  IF call.i < call.retries
      THEN [call EXCEPT !.lastErr = e, !.sleeping = TRUE, !.before = <<>>,
                        !.events = Append(failed,
                           Ev(site, call.i, "sleep", [ms |-> call.delayMs]))]
      ELSE [call EXCEPT !.lastErr = e, !.before = <<>>,
                        !.events = Append(failed, Ev(site, call.i, "throw", e))]

\* the catch block of withRetries, and `throw lastErr` when the loop ends
AfterFailure(call, site) ==
  LET e      == [err |-> site, at |-> call.i]
      failed == Append(call.events, Ev(site, call.i, "fail", e))
  IN  IF call.i < call.retries
      THEN [call EXCEPT !.lastErr = e, !.sleeping = TRUE, !.before = <<>>,
                        !.events = Append(failed,
                           Ev(site, call.i, "sleep",
                              [ms |-> call.delayMs * (call.i + 1)]))]
      ELSE [call EXCEPT !.lastErr = e, !.before = <<>>,
                        !.events = Append(failed, Ev(site, call.i, "throw", e))]

\* AfterSleep for a sleep whose promise never resolves
AfterSleepStaysAsleep(call, site) == call

\* sleep is over: i++ and fn is called again
AfterSleep(call, site) ==
  [call EXCEPT !.i = @ + 1, !.sleeping = FALSE,
               !.events = Append(@, Ev(site, call.i + 1, "call", Null))]

\* cycle c is suspended at `site` of an extractor or of the page set-up
Move(c, site, call, finv, spotv) ==
  /\ pc' = [pc EXCEPT ![c] = site]
  /\ retry' = [retry EXCEPT ![c] = call]
  /\ fin' = [fin EXCEPT ![c] = finv]
  /\ spot' = [spot EXCEPT ![c] = spotv]
  /\ UNCHANGED <<ts, page, seriesVars, result, crashed>>

\* control of cycle c leaves a set-up call or an extractor for `target`
Leave(c, target, call, finv, spotv) ==
  IF target = "spot"
  THEN Move(c, "spot.goto",
            withRetries(call, "spot.goto", RetriesAt("spot.goto"), DefaultDelayMs),
            finv, spotv)
  ELSE /\ Goto(c, target, finv, spotv, page[c])
       /\ retry' = [retry EXCEPT ![c] = call]

\* page.setUserAgent, page.setExtraHTTPHeaders or page.setRequestInterception
\* settles
Setup(c) ==
  /\ Running
  /\ pc[c] \in {"setUserAgent", "setExtraHTTPHeaders", "setRequestInterception"}
  /\ \/ CASE pc[c] = "setUserAgent" ->
               Move(c, "setExtraHTTPHeaders", retry[c], fin[c], spot[c])
          [] pc[c] = "setExtraHTTPHeaders" ->
               Move(c, "setRequestInterception", retry[c], fin[c], spot[c])
          [] pc[c] = "setRequestInterception" ->
               Move(c, "fintech.goto",
                    withRetries(retry[c], "fintech.goto", RetriesAt("fintech.goto"),
                                DefaultDelayMs),
                    fin[c], spot[c])
     \/ Leave(c, OnThrow("setUserAgent"), retry[c], fin[c], spot[c])
  /\ UNCHANGED <<now, started, nStarted, b, tried, engineVars, socketVars,
                 loopVars, callVars, signal>>

\* the promise of fn() settles in a withRetries call
Attempt(c) ==
  /\ Running
  /\ pc[c] \in RetrySites
  /\ ~retry[c].sleeping
  /\ \/ /\ LET call == Returned(retry[c], pc[c])
           IN  CASE pc[c] = "fintech.goto" ->
                      Move(c, "fintech.waitForSelector",
                           withRetries(call, "fintech.waitForSelector",
                                       RetriesAt("fintech.waitForSelector"),
                                       DefaultDelayMs),
                           fin[c], spot[c])
                 [] pc[c] = "fintech.waitForSelector" ->
                      Move(c, "fintech.evaluate", call, fin[c], spot[c])
                 [] pc[c] = "spot.goto" ->
                      Move(c, "spot.waitForSelector",
                           withRetries(call, "spot.waitForSelector",
                                       RetriesAt("spot.waitForSelector"),
                                       DefaultDelayMs),
                           fin[c], spot[c])
                 [] pc[c] = "spot.waitForSelector" ->
                      Move(c, "spot.evaluate", call, fin[c], spot[c])
        /\ UNCHANGED tried
     \/ LET call == AfterFailure(retry[c], pc[c])
        IN  IF call.sleeping
            THEN /\ Move(c, pc[c], call, fin[c], spot[c])
                 /\ UNCHANGED tried
            ELSE /\ Leave(c, OnThrow(Extractor(pc[c])), call, fin[c], spot[c])
                 /\ Tried(c, Extractor(pc[c]), FALSE, <<>>)
  /\ UNCHANGED <<now, started, nStarted, b, engineVars, socketVars, loopVars,
                 callVars, signal>>

\* the sleep of a withRetries call is over
Wake(c) ==
  /\ Running
  /\ pc[c] \in RetrySites
  /\ retry[c].sleeping
  /\ Move(c, pc[c], AfterSleep(retry[c], pc[c]), fin[c], spot[c])
  /\ UNCHANGED <<now, started, nStarted, b, tried, engineVars, socketVars,
                 loopVars, callVars, signal>>

\* page.evaluate settles in an extractor, which then returns or throws
Evaluate(c) ==
  /\ Running
  /\ pc[c] \in {"fintech.evaluate", "spot.evaluate"}
  /\ IF pc[c] = "fintech.evaluate"
     THEN \/ /\ Leave(c, "spot", retry[c], Averages[<<>>], spot[c])
             /\ Tried(c, "fintech", TRUE, <<>>)
          \/ /\ Leave(c, OnThrow("fintech"), retry[c], fin[c], spot[c])
             /\ Tried(c, "fintech", FALSE, <<>>)
     ELSE \/ /\ Leave(c, "close", retry[c], fin[c], Spots[NoText])
             /\ Tried(c, "spot", TRUE, <<>>)
          \/ /\ Leave(c, OnThrow("spot"), retry[c], fin[c], spot[c])
             /\ Tried(c, "spot", FALSE, <<>>)
  /\ UNCHANGED <<now, started, nStarted, b, engineVars, socketVars, loopVars,
                 callVars, signal>>

\* SIGINT or SIGTERM arrives: the handler runs up to its await of
\* browser.close() or, with no engine in browser, to process.exit(0); a
\* signal that arrives while an earlier handler is awaiting changes nothing
Signal ==
  /\ Running
  /\ signal = "none"
  /\ signal' = IF browser # 0 THEN "closing" ELSE "exited"
  /\ UNCHANGED <<now, started, nStarted, cycleVars, crashed, engineVars,
                 seriesVars, socketVars, loopVars, callVars, retry>>

\* browser.close() settles in the signal handler, resolved or rejected:
\* process.exit(0)
Exit ==
  /\ Running
  /\ signal = "closing"
  /\ signal' = "exited"
  /\ UNCHANGED <<now, started, nStarted, cycleVars, crashed, engineVars,
                 seriesVars, socketVars, loopVars, callVars, retry>>

RetryInit ==
  /\ ServerInit(0)
  /\ given = NoCall
  /\ got = NoCall
  /\ retry = [c \in Cycles |-> NoRetry]

RetryNext ==
  \/ Listen
  \/ TimerFire
  \/ \E c \in Cycles : Launch1(c)
  \/ \E c \in Cycles : Launch2(c)
  \/ \E c \in Cycles : NewPage(c)
  \/ \E c \in Cycles : Setup(c)
  \/ \E c \in Cycles : Attempt(c)
  \/ \E c \in Cycles : Wake(c)
  \/ \E c \in Cycles : Evaluate(c)
  \/ \E c \in Cycles : Close(c)
  \/ \E s \in Subs : Connect(s)
  \/ \E s \in Subs : Disconnect(s)
  \/ Tick
  \/ Signal
  \/ Exit

RetrySpec == RetryInit /\ [][RetryNext]_vars

\* the cycles, the timer and the signal handler; no step of them waits for
\* the clock or for a socket
LiveNext ==
  \/ Listen
  \/ TimerFire
  \/ \E c \in Cycles : Launch1(c)
  \/ \E c \in Cycles : Launch2(c)
  \/ \E c \in Cycles : NewPage(c)
  \/ \E c \in Cycles : Setup(c)
  \/ \E c \in Cycles : Attempt(c)
  \/ \E c \in Cycles : Wake(c)
  \/ \E c \in Cycles : Evaluate(c)
  \/ \E c \in Cycles : Close(c)
  \/ Signal
  \/ Exit

\* every awaited operation of the page fetcher, and every sleep, eventually
\* settles
RetryLive ==
  /\ RetryInit /\ [][LiveNext]_vars
  /\ \A c \in Cycles :
       /\ WF_vars(Launch1(c)) /\ WF_vars(Launch2(c)) /\ WF_vars(NewPage(c))
       /\ WF_vars(Setup(c)) /\ WF_vars(Attempt(c)) /\ WF_vars(Wake(c))
       /\ WF_vars(Evaluate(c)) /\ WF_vars(Close(c))
  /\ WF_vars(Exit)


(***************************************************************************)
(* Properties.                                                             *)
(***************************************************************************)
DateOf(p) == DatePart(p.timestamp)

Last(q) == q[Len(q)]

\* cycle c returns in this step
Finishes(c) == pc[c] # "done" /\ pc'[c] = "done"

\* the launchBrowser call of cycle c throws in this step
LaunchThrows(c) == pc[c] \in {"launch1", "launch2"} /\ pc'[c] = "done"

Tick_(point) == [kind |-> "tick", point |-> point]

\* C1: liveSeries never holds two points whose timestamps have different UTC
\* dates, and every member has the date of the most recently pushed point.
C1_OneDate ==
  /\ \A i, j \in 1..Len(liveSeries) : DateOf(liveSeries[i]) = DateOf(liveSeries[j])
  /\ \A i \in 1..Len(liveSeries) : DateOf(liveSeries[i]) = DateOf(Last(log))

\* C2: a push evicts exactly the members whose UTC date differs from the
\* date of the pushed point's own timestamp, keeps the others, then pushes
\* (and drops the oldest member when over the cap).
C2_EvictsBySampleDate ==
  [][Len(log') = Len(log) + 1 =>
       LET p      == Last(log')
           kept   == SelectSeq(liveSeries, LAMBDA q : DateOf(q) = DateOf(p))
           pushed == Append(kept, p)
       IN  liveSeries' = IF Len(pushed) > Cap THEN Tail(pushed) ELSE pushed]_vars

\* C3: in every reachable state liveSeries holds at most Cap points.
C3_Capped == Len(liveSeries) <= Cap

\* more same-day points than the cap have been pushed and liveSeries is full
C3_Witness ==
  /\ Len(log) > Cap
  /\ \A i \in 1..Len(log) : DateOf(log[i]) = DatePart(ToISOString(now))
  /\ Len(liveSeries) = Cap

TicksOf(s) ==
  LET ticks == SelectSeq(inbox[s], LAMBDA e : e.kind = "tick")
  IN  [i \in 1..Len(ticks) |-> ticks[i].point]

\* C4: a socket receives exactly one boot, first, carrying liveSeries as it is
\* at the connection, and then as ticks exactly the points pushed while it is
\* connected, each once and in push order.
C4_BootThenTicks ==
  /\ [](\A s \in Subs :
          IF connAt[s] = -1 THEN inbox[s] = <<>>
          ELSE /\ inbox[s] # <<>>
               /\ inbox[s][1].kind = "boot"
               /\ \A i \in 2..Len(inbox[s]) : inbox[s][i].kind = "tick"
               /\ TicksOf(s) = SubSeq(log, connAt[s] + 1,
                                      IF discAt[s] = -1 THEN Len(log) ELSE discAt[s]))
  /\ [][\A s \in Subs :
          (connAt[s] = -1 /\ connAt'[s] # -1) =>
             inbox'[s] = <<[kind |-> "boot", series |-> liveSeries]>>]_vars

\* a socket connected after a push holds a non-empty boot and a later tick
C4_Witness ==
  \E s \in Subs :
    /\ connAt[s] >= 1
    /\ Len(inbox[s]) >= 2
    /\ inbox[s][1].series # <<>>

\* C5: every cycle that returns pushes exactly one point and emits exactly
\* one tick carrying that point to every socket connected then, whatever the
\* extractors did; as many ticks are emitted as points are pushed.
C5_OneTickPerCycle ==
  /\ [](Len(emitted) = Len(log))
  /\ [][/\ \A c \in Cycles :
             Finishes(c) =>
               /\ Len(log') = Len(log) + 1
               /\ Last(liveSeries') = Last(log')
               /\ emitted' = Append(emitted, Last(log'))
               /\ \A s \in Subs :
                    inbox'[s] = IF s \in connected
                                THEN Append(inbox[s], Tick_(Last(log')))
                                ELSE inbox[s]
        /\ (\A c \in Cycles : ~Finishes(c)) => (log' = log /\ emitted' = emitted)]_vars

\* one cycle returned after both extractors succeeded and another after
\* both failed
C5_Witness ==
  /\ \E c \in Cycles : pc[c] = "done" /\ Len(tried[c]) = 2
                       /\ tried[c][1].ok /\ tried[c][2].ok
  /\ \E c \in Cycles : pc[c] = "done" /\ Len(tried[c]) = 2
                       /\ ~tried[c][1].ok /\ ~tried[c][2].ok
  /\ Len(emitted) >= 2

\* C6: when launchBrowser throws in a cycle, the cycle still pushes and
\* emits a point with all five fields absent and sampleCount 0, the browser
\* variable stays unset, and a cycle that begins with it unset launches.
C6_LaunchFailure ==
  [][/\ \A c \in Cycles :
          LaunchThrows(c) =>
            /\ Len(log') = Len(log) + 1
            /\ emitted' = Append(emitted, Last(log'))
            /\ Last(log').bid_avg = Null
            /\ Last(log').ask_avg = Null
            /\ Last(log').spot = Null
            /\ Last(log').bestBuy = Null
            /\ Last(log').bestSell = Null
            /\ Last(log').sampleCount = 0
            /\ browser' = 0
     /\ \A c \in Cycles :
          (pc[c] = "idle" /\ pc'[c] # "idle" /\ browser = 0) => pc'[c] = "launch1"]_vars

HasValidBuy(rows) == \E i \in 1..Len(rows) : Valid(parseNum(rows[i].buy))
HasValidSell(rows) == \E i \in 1..Len(rows) : Valid(parseNum(rows[i].sell))

\* the strictly positive parsed buy (sell) values of the rows, in row order
ValidBuys(rows) ==
  SelectSeq([i \in 1..Len(rows) |-> parseNum(rows[i].buy)], Valid)
ValidSells(rows) ==
  SelectSeq([i \in 1..Len(rows) |-> parseNum(rows[i].sell)], Valid)

\* whether some row has a strictly positive parsed buy (sell) value, and
\* whether the sum of those values, added as doubles in row order, is finite
Quotes(rows) ==
  [hasBuy  |-> HasValidBuy(rows),
   buySum  |-> IsFinite(SumSeq(ValidBuys(rows))),
   hasSell |-> HasValidSell(rows),
   sellSum |-> IsFinite(SumSeq(ValidSells(rows)))]

\* Quotes of the rows of each page a cycle may read
QuotesOf ==
  [rows \in {Averages[entries].raw : entries \in FintechPages} |-> Quotes(rows)]
    @@ <<>>

\* the steps of cycle c around its extractors: a cycle whose newPage or
\* setUserAgent fails returns without having tried an extractor; a cycle
\* whose page is configured tries the fintech extractor, and whatever that
\* did, the spot extractor next
ExtractorSteps(c) ==
  /\ (pc[c] \in {"newPage", "setUserAgent"} /\ pc'[c] = "done") =>
        tried'[c] = <<>>
  /\ (pc[c] = "setUserAgent" /\ pc'[c] \notin {"setUserAgent", "done"}) =>
        (pc'[c] = "fintech" /\ tried'[c] = <<>>)
  /\ (pc[c] = "fintech" /\ pc'[c] # "fintech") =>
        /\ pc'[c] = "spot"
        /\ Len(tried'[c]) = 1
        /\ tried'[c][1].site = "fintech"
  /\ (pc[c] = "spot" /\ pc'[c] # "spot") =>
        /\ pc'[c] = "close"
        /\ Len(tried'[c]) = 2
        /\ tried'[c][1] = tried[c][1]
        /\ tried'[c][2].site = "spot"

\* the extractors run in the order fintech, spot, and the spot extractor
\* has been tried whenever control is past it
ExtractorOrder ==
  \A c \in Cycles :
    /\ Len(tried[c]) <= 2
    /\ Len(tried[c]) >= 1 => tried[c][1].site = "fintech"
    /\ Len(tried[c]) = 2 => tried[c][2].site = "spot"
    /\ pc[c] = "spot" => Len(tried[c]) = 1
    /\ (Len(tried[c]) >= 1 /\ pc[c] # "spot") => Len(tried[c]) = 2
    /\ pc[c] = "close" => Len(tried[c]) = 2

\* C7 as claimed: fintech runs first and spot is always tried after it; a
\* spot failure with fintech success gives populated bid_avg, ask_avg,
\* bestBuy, bestSell and absent spot; a fintech failure with spot success
\* gives populated spot, the four others absent and sampleCount 0.
C7_Original ==
  /\ []ExtractorOrder
  /\ [][\A c \in Cycles :
          (Finishes(c) /\ Len(tried[c]) = 2) =>
            LET p == Last(log')
            IN  /\ (tried[c][1].ok /\ ~tried[c][2].ok) =>
                      /\ p.bid_avg # Null /\ p.ask_avg # Null
                      /\ p.bestBuy # Null /\ p.bestSell # Null
                      /\ p.spot = Null
                /\ (~tried[c][1].ok /\ tried[c][2].ok) =>
                      /\ p.spot # Null
                      /\ p.bid_avg = Null /\ p.ask_avg = Null
                      /\ p.bestBuy = Null /\ p.bestSell = Null
                      /\ p.sampleCount = 0]_vars

\* C7 as amended: in a cycle whose page was opened and configured (newPage
\* and setUserAgent succeeded) fintech runs first and spot is always tried
\* after it, and a cycle whose newPage or setUserAgent failed tries neither;
\* a spot failure gives absent spot, a fintech failure gives absent bid_avg,
\* ask_avg, bestBuy, bestSell and sampleCount 0; after a fintech success
\* bestSell is populated exactly when some row has a strictly positive
\* parsed buy text, and bid_avg exactly when in addition the sum of those
\* values, added as doubles in row order, is finite; bestBuy and ask_avg
\* likewise on the sell side, whatever the spot extractor did; after a spot
\* success spot is populated exactly when the extractor returned a finite
\* number, whatever the fintech extractor did.
C7_Amended ==
  /\ []ExtractorOrder
  /\ [][\A c \in Cycles : ExtractorSteps(c)]_vars
  /\ [][\A c \in Cycles :
          (Finishes(c) /\ Len(tried[c]) = 2) =>
            LET p == Last(log')
                q == QuotesOf[fin[c].raw]
            IN  /\ ~tried[c][2].ok => p.spot = Null
                /\ tried[c][2].ok => (p.spot # Null <=> IsFinite(spot[c]))
                /\ ~tried[c][1].ok =>
                      /\ p.bid_avg = Null /\ p.ask_avg = Null
                      /\ p.bestBuy = Null /\ p.bestSell = Null
                      /\ p.sampleCount = 0
                /\ tried[c][1].ok =>
                      /\ p.bestSell # Null <=> q.hasBuy
                      /\ p.bid_avg # Null <=> (q.hasBuy /\ q.buySum)
                      /\ p.bestBuy # Null <=> q.hasSell
                      /\ p.ask_avg # Null <=> (q.hasSell /\ q.sellSum)]_vars

\* one cycle returned after fintech succeeded, on the page whose buy prices
\* add up to Infinity, and spot failed: its point has bestSell, ask_avg and
\* bestBuy but neither bid_avg nor spot; another cycle returned after
\* fintech failed and spot succeeded
C7_Witness ==
  /\ \E c \in Cycles : /\ pc[c] = "done" /\ Len(tried[c]) = 2
                       /\ tried[c][1].ok /\ ~tried[c][2].ok
                       /\ tried[c][1].entries = PageHuge
  /\ \E k \in 1..Len(log) :
       /\ log[k].bid_avg = Null /\ log[k].bestSell # Null
       /\ log[k].ask_avg # Null /\ log[k].bestBuy # Null
       /\ log[k].spot = Null
  /\ \E c \in Cycles : pc[c] = "done" /\ Len(tried[c]) = 2
                       /\ ~tried[c][1].ok /\ tried[c][2].ok

\* C8: no failure inside a cycle leaves runOnceSafe: its promise is never
\* rejected, the process stays up and the timer can still start cycles.
C8_NeverRejects ==
  /\ ~crashed
  /\ \A c \in Cycles : result[c] # "rejected"
  /\ (started /\ nStarted < MaxCycles) => ENABLED TimerFire

\* cycles have returned after a failed launch, after a page that could not
\* be set up or after two failed extractors, and the promises are fulfilled
C8_Witness ==
  /\ \E c \in Cycles : pc[c] = "done" /\ b[c] = 0 /\ result[c] = "fulfilled"
  /\ \E c \in Cycles : pc[c] = "done" /\ b[c] # 0 /\ result[c] = "fulfilled"
                       /\ (page[c] # "closed"
                           \/ (~tried[c][1].ok /\ ~tried[c][2].ok))

\* C9: no cycle returns with the page it got from newPage still open.
C9_PageReleased ==
  \A c \in Cycles : pc[c] = "done" => page[c] # "open"

\* C10: at most one engine is ever launched and all cycles use that one.
C10_SingleEngine ==
  /\ launched <= 1
  /\ \A c, d \in Cycles : (b[c] # 0 /\ b[d] # 0) => b[c] = b[d]

\* C11: the listen callback starts the first cycle in the same step, without
\* waiting for the timer; every timer fire starts exactly one new cycle,
\* whether or not earlier cycles are still running; so the number of
\* runOnceSafe calls is one plus the number of timer fires.
C11_CyclePerFire ==
  /\ [](calls = (IF started THEN 1 ELSE 0) + fires)
  /\ []((started /\ ~crashed /\ nStarted < MaxCycles) => ENABLED TimerFire)
  /\ [][/\ (~started /\ started') =>
             (calls' = calls + 1 /\ fires' = fires /\ result'[1] = "pending")
        /\ fires' # fires =>
             /\ fires' = fires + 1
             /\ calls' = calls + 1
             /\ nStarted' = nStarted + 1
             /\ result[nStarted'] = "none" /\ result'[nStarted'] = "pending"
             /\ \A c \in Cycles : result[c] = "pending" => result'[c] = "pending"
        /\ calls' # calls => (fires' # fires \/ started' # started)]_vars

\* the timer has fired while the cycle started before it was still running
C11_Witness ==
  /\ fires >= 1
  /\ calls = fires + 1
  /\ Cardinality({c \in Cycles : result[c] = "pending"}) >= 2

\* C12: the filter, push, shift and emit of a cycle happen in one step on the
\* series as the previous push left it: a step that changes liveSeries, log
\* or emitted is the return of exactly one cycle, applies filter-push-shift
\* to the whole current liveSeries, emits that one point and connects no
\* socket; and while every pushed point is of the current day and no more
\* than Cap points were pushed, liveSeries holds every pushed point.
C12_AtomicAppend ==
  /\ []((/\ Len(log) <= Cap
         /\ \A i \in 1..Len(log) : DateOf(log[i]) = DatePart(ToISOString(now)))
        => liveSeries = log)
  /\ [][(liveSeries' # liveSeries \/ log' # log \/ emitted' # emitted) =>
          /\ Cardinality({c \in Cycles : Finishes(c)}) = 1
          /\ Len(log') = Len(log) + 1
          /\ SubSeq(log', 1, Len(log)) = log
          /\ emitted' = Append(emitted, Last(log'))
          /\ LET kept   == SelectSeq(liveSeries, LAMBDA q :
                              DateOf(q) = DatePart(ToISOString(now)))
                 pushed == Append(kept, Last(log'))
             IN  liveSeries' = IF Len(pushed) > Cap THEN Tail(pushed) ELSE pushed
          /\ connected' = connected
          /\ connAt' = connAt
          /\ \A s \in Subs : s \notin connected => inbox'[s] = inbox[s]]_vars

\* two cycles of the same day overlapped, the later one pushed first, and
\* both points are in liveSeries
C12_Witness ==
  /\ Len(log) >= 2
  /\ Len(log) <= Cap
  /\ liveSeries = log
  /\ \E i \in 1..(Len(log) - 1) :
       /\ DateOf(log[i]) = DateOf(log[i + 1])
       /\ log[i].timestamp.time > log[i + 1].timestamp.time

\* sum and mean of the values vals[i], i in S
RECURSIVE SumOver(_, _)
SumOver(vals, S) ==
  IF S = {} THEN Rat(0, 1)
  ELSE LET i == CHOOSE j \in S : TRUE
           t == SumOver(vals, S \ {i})
       IN  Rat(vals[i].n * t.d + t.n * vals[i].d, vals[i].d * t.d)

MeanOver(vals, S) ==
  IF S = {} THEN NaN
  ELSE LET t == SumOver(vals, S) IN Rat(t.n, t.d * Cardinality(S))

\* the indices of the strictly positive numbers among vals
PositiveIn(vals) == {i \in DOMAIN vals : vals[i] # NaN /\ Positive(vals[i])}

\* the numbers vals[i], i in S, are written n / d
Decimals(vals, S) == \A i \in S : ~IsBinary(vals[i])

\* x is a finite number from the least to the greatest of vals[i], i in S
Within(x, vals, S) ==
  /\ IsFinite(x)
  /\ \E i \in S : ~Less(x, vals[i])
  /\ \E i \in S : ~Less(vals[i], x)

\* x is y rounded to four decimals (at a tie, to either side)
Rounds4(x, y) ==
  /\ x.d # 0
  /\ 10000 % x.d = 0
  /\ Abs(x.n * y.d - y.n * x.d) * 20000 <= x.d * y.d

\* X * c for a natural c below 2^21
BigTimes(X, c) == BigAdd(BigMul(X, c % 1024), BigShl(BigMul(X, c \div 1024), 10))

\* the double x is the positive rational y to within a relative error of
\* 2^-50, that is eight roundings of a double
Near(x, y) ==
  /\ IsBinary(x)
  /\ x.s = 1
  /\ -x.e \in 40..60
  /\ LET k    == -x.e
         A    == BigTimes(x.m, y.d)
         B    == BigShl(BigOf(y.n), k)
         diff == IF BigLess(A, B) THEN BigSub(B, A) ELSE BigSub(A, B)
     IN  /\ BigLen(diff) <= 29
         /\ ~BigLess(B, BigShl(diff, 50))

\* the extractor's average x is the mean of the numbers vals[i], i in S, as
\* double arithmetic computes it, and NaN when S is empty; of numbers too
\* large to be written n / d the mean is required to be a finite number
\* from the least to the greatest of them
MeanIs(x, vals, S) ==
  IF S = {} THEN x = NaN
  ELSE IF Decimals(vals, S) THEN Near(x, MeanOver(vals, S))
  ELSE Within(x, vals, S)

\* the point's field x is the mean of the numbers vals[i], i in S, rounded
\* to four decimals, and null when S is empty
FieldIs(x, vals, S) ==
  IF S = {} THEN x = Null
  ELSE IF Decimals(vals, S) THEN Rounds4(x, MeanOver(vals, S))
  ELSE x # Null /\ Within(x, vals, S)

\* C13: for every offer set the fintech extractor returns as bidAvg the
\* arithmetic mean, as double arithmetic computes it, of exactly the strictly
\* positive parsed buy values and as askAvg that of the strictly positive
\* parsed sell values, NaN when there is none; the point carries the exact
\* means rounded to four decimals, null when there is none; buys 3,50 and
\* 3,52 with sells 3,55 and 3.54 give 3.51 and 3.545.
C13_Averages ==
  (got.kind \in {"extracted", "point"} /\ given.finOk) =>
    LET rows  == given.rows
        buys  == [i \in 1..Len(rows) |-> parseNum(rows[i].buy)]
        sells == [i \in 1..Len(rows) |-> parseNum(rows[i].sell)]
    IN  /\ MeanIs(got.fin.bidAvg, buys, PositiveIn(buys))
        /\ MeanIs(got.fin.askAvg, sells, PositiveIn(sells))
        /\ got.fin.sampleCount = Len(rows)
        /\ got.kind = "point" =>
              /\ FieldIs(got.point.bid_avg, buys, PositiveIn(buys))
              /\ FieldIs(got.point.ask_avg, sells, PositiveIn(sells))
        /\ rows = <<Offer(<<"A">>, T350, T355), Offer(<<"B">>, T352, T354)>> =>
              /\ got.fin.bidAvg = ToDouble(Rat(351, 100))
              /\ got.fin.askAvg = ToDouble(Rat(3545, 1000))
              /\ got.kind = "point" =>
                    /\ got.point.bid_avg = Rat(351, 100)
                    /\ got.point.ask_avg = Rat(3545, 1000)

\* C14: bestBuy is the first offer, in encounter order, whose parsed sell
\* value is the least of the strictly positive parsed sell values, with that
\* value as its price; bestSell is the first offer whose parsed buy value is
\* the greatest of the strictly positive parsed buy values; each is null
\* when no offer has such a value.
C14_Rankings ==
  (got.kind = "point" /\ given.finOk) =>
    LET rows  == given.rows
        buys  == [i \in 1..Len(rows) |-> parseNum(rows[i].buy)]
        sells == [i \in 1..Len(rows) |-> parseNum(rows[i].sell)]
        cb    == PositiveIn(buys)
        cs    == PositiveIn(sells)
        p     == got.point
    IN  /\ IF cs = {} THEN p.bestBuy = Null
           ELSE \E k \in cs :
                  /\ p.bestBuy = [name |-> rows[k].name, buy |-> sells[k]]
                  /\ \A j \in cs : ~Less(sells[j], p.bestBuy.buy)
                  /\ \A j \in cs : j < k => Less(sells[k], sells[j])
        /\ IF cb = {} THEN p.bestSell = Null
           ELSE \E k \in cb :
                  /\ p.bestSell = [name |-> rows[k].name, sell |-> buys[k]]
                  /\ \A j \in cb : ~Less(p.bestSell.sell, buys[j])
                  /\ \A j \in cb : j < k => Less(buys[j], buys[k])

\* a point was built from offers of which two with different names tie on
\* the least sell price and two on the greatest buy price, and in both ties
\* the earlier offer was taken
C14_Witness ==
  /\ got.kind = "point"
  /\ given.finOk
  /\ \E i, j \in 1..Len(given.rows) :
       /\ i < j
       /\ given.rows[i].name # given.rows[j].name
       /\ parseNum(given.rows[i].sell) = parseNum(given.rows[j].sell)
       /\ got.point.bestBuy = [name |-> given.rows[i].name,
                               buy  |-> parseNum(given.rows[j].sell)]
  /\ \E i, j \in 1..Len(given.rows) :
       /\ i < j
       /\ given.rows[i].name # given.rows[j].name
       /\ parseNum(given.rows[i].buy) = parseNum(given.rows[j].buy)
       /\ got.point.bestSell = [name |-> given.rows[i].name,
                                sell |-> parseNum(given.rows[j].buy)]

\* the text shows no number at all
NoDigit(el) == el = NoText \/ \A i \in 1..Len(el) : el[i] \notin Digits

\* C15: every point has the fields bid_avg, ask_avg and spot, each either
\* null or a finite number and never NaN; a field is null exactly when its
\* extractor gave no finite value, which is the case whenever the extractor
\* threw or its page showed no usable number, so a field that is 0 stands
\* for a value read from the page.
C15_AbsentIsNull ==
  got.kind = "point" =>
    LET p     == got.point
        rows  == given.rows
        buys  == [i \in 1..Len(rows) |-> parseNum(rows[i].buy)]
        sells == [i \in 1..Len(rows) |-> parseNum(rows[i].sell)]
    IN  /\ {"bid_avg", "ask_avg", "spot"} \subseteq DOMAIN p
        /\ \A f \in {"bid_avg", "ask_avg", "spot"} :
             /\ p[f] # NaN
             /\ p[f] # Null => IsFinite(p[f])
        /\ p.bid_avg = Null <=> (~given.finOk \/ ~IsFinite(got.fin.bidAvg))
        /\ p.ask_avg = Null <=> (~given.finOk \/ ~IsFinite(got.fin.askAvg))
        /\ (~given.finOk \/ PositiveIn(buys) = {}) => p.bid_avg = Null
        /\ (~given.finOk \/ PositiveIn(sells) = {}) => p.ask_avg = Null
        /\ p.spot = Null <=> got.spot = NaN
        /\ (~given.spotOk \/ NoDigit(given.el)) => p.spot = Null
        /\ p.spot = Rat(0, 1) => (given.spotOk /\ ~NoDigit(given.el))

\* one point carries both a spot of 0 read from the page and averages that
\* are absent because the fintech extractor threw
C15_Witness ==
  /\ got.kind = "point"
  /\ ~given.finOk
  /\ given.el = <<"0">>
  /\ got.point.spot = Rat(0, 1)
  /\ got.point.bid_avg = Null
  /\ got.point.ask_avg = Null

\* every comma of the text written as a point
PointForm(t) == [i \in 1..Len(t) |-> IF t[i] = "," THEN "." ELSE t[i]]

\* the text uses one comma, and no point, as its decimal separator
CommaDecimal(t) ==
  /\ t # NoText
  /\ Cardinality({i \in 1..Len(t) : t[i] = ","}) = 1
  /\ \A i \in 1..Len(t) : t[i] # "."

\* the text is empty or whitespace only, or holds a character that belongs
\* to no number
Blank(t) == t = NoText \/ \A i \in 1..Len(t) : t[i] = " "
NonNumeric(t) == t # NoText /\ \E i \in 1..Len(t) : t[i] = "a"

\* C16: parseNum returns a number or NaN for every argument; for a text with
\* a decimal comma it returns what it returns for the same text written with
\* a point; for null / undefined, the empty text, a whitespace-only text and
\* a non-numeric text it returns NaN.
C16_ParseNum ==
  got.kind = "number" =>
    /\ DOMAIN got.v = {"n", "d"}
    /\ CommaDecimal(given.txt) => got.v = parseNum(PointForm(given.txt))
    /\ (Blank(given.txt) \/ NonNumeric(given.txt)) => got.v = NaN

\* the members of q at the indices in K, in order
Pick(q, K) ==
  LET F[i \in 0..Len(q)] ==
        IF i = 0 THEN <<>>
        ELSE IF i \in K THEN Append(F[i - 1], q[i]) ELSE F[i - 1]
  IN  F[Len(q)]

\* new is old with some whole members removed
Removal(old, new) == \E K \in SUBSET (1..Len(old)) : new = Pick(old, K)

\* C17: no step changes a field of a point that exists: liveSeries changes
\* only by losing whole members and gaining the new point at its end, the
\* points pushed so far and the events already sent to a socket stay as they
\* are, and a connection or disconnection leaves liveSeries alone.
C17_Immutable ==
  [][/\ \/ liveSeries' = liveSeries
        \/ /\ Len(log') = Len(log) + 1
           /\ liveSeries' # <<>>
           /\ Last(liveSeries') = Last(log')
           /\ Removal(liveSeries, SubSeq(liveSeries', 1, Len(liveSeries') - 1))
     /\ SubSeq(log', 1, Len(log)) = log
     /\ SubSeq(emitted', 1, Len(emitted)) = emitted
     /\ \A s \in Subs : SubSeq(inbox'[s], 1, Len(inbox[s])) = inbox[s]
     /\ (connected' # connected) => liveSeries' = liveSeries]_vars

\* a point with a spot value is still in liveSeries, unchanged, after a
\* later push and after a socket connected and got it in its boot
C17_Witness ==
  /\ Len(liveSeries) >= 2
  /\ liveSeries[1].spot # Null
  /\ \E s \in Subs :
       /\ connAt[s] >= 1
       /\ Len(inbox[s]) >= 2
       /\ liveSeries[1] \in {inbox[s][1].series[i] : i \in 1..Len(inbox[s][1].series)}

\* a cycle suspended before its page is set up can take the step in which
\* the awaited call fails, and that step pushes, emits and returns
CanFinish(c) ==
  CASE pc[c] = "launch1"      -> ENABLED (Launch1(c) /\ pc'[c] = "done")
    [] pc[c] = "launch2"      -> ENABLED (Launch2(c) /\ pc'[c] = "done")
    [] pc[c] = "newPage"      -> ENABLED (NewPage(c) /\ pc'[c] = "done")
    [] pc[c] = "setUserAgent" -> ENABLED (SetUserAgent(c) /\ pc'[c] = "done")
    [] OTHER                  -> TRUE

\* C18: whatever sockets are connected and however many events they have
\* been sent, the step that pushes and emits is open to a cycle; the step in
\* which a cycle emits its tick is the step in which it pushes its point and
\* returns, so nothing is awaited after the emit; and a socket connecting or
\* disconnecting changes nothing of any cycle or of liveSeries.
C18_FireAndForget ==
  /\ [](\A c \in Cycles : CanFinish(c))
  /\ [][/\ emitted' # emitted =>
             \E c \in Cycles :
               /\ Finishes(c)
               /\ result'[c] = "fulfilled"
               /\ Last(liveSeries') = Last(emitted')
        /\ \A c \in Cycles :
             Finishes(c) => (result'[c] = "fulfilled" /\ emitted' # emitted)
        /\ connected' # connected =>
             UNCHANGED <<cycleVars, liveSeries, log, emitted, engineVars>>]_vars

\* every cycle has returned although a socket that is still connected has
\* been sent its boot and two ticks
C18_Witness ==
  /\ \A c \in Cycles : result[c] = "fulfilled"
  /\ \E s \in connected : Len(inbox[s]) >= 3


\* the events kept of cycle c's withRetries calls at `site`, in order
EventsAt(c, site) ==
  SelectSeq(retry[c].before \o retry[c].events, LAMBDA e : e.site = site)

\* how many of the first k events of es are `ev`
CountOf(es, ev, k) == Cardinality({j \in 1..k : es[j].ev = ev})

\* C19: when every awaited operation of the page fetcher and every sleep of
\* withRetries eventually settles, a cycle that has started eventually
\* returns, having pushed its point and emitted its tick, however its
\* operations fail and whatever other cycle runs beside it, unless a SIGINT
\* or SIGTERM has made the process exit first; and the attempts of a
\* withRetries call are bounded by its retries, so no source keeps the cycle
\* retrying.
C19_Terminates ==
  /\ \A c \in Cycles : \A n \in 0..MaxCycles :
       (result[c] = "pending" /\ Len(log) = n)
         ~> (\/ /\ result[c] = "fulfilled" /\ pc[c] = "done"
                /\ Len(log) > n /\ Len(emitted) > n
             \/ signal = "exited")
  /\ [](\A c \in Cycles : \A site \in RetrySites :
          CountOf(EventsAt(c, site), "call", Len(EventsAt(c, site)))
            <= RetriesAt(site) + 1)

\* no signal has arrived and a cycle has returned and pushed its point
\* after both of its extractors failed, the second when its navigation had
\* used up its retries, while the other cycle is still running
C19_Witness ==
  /\ signal = "none"
  /\ \E c \in Cycles :
       /\ result[c] = "fulfilled"
       /\ Len(log) >= 1 /\ Len(emitted) >= 1
       /\ Len(tried[c]) = 2
       /\ tried[c][1].site = "fintech" /\ ~tried[c][1].ok
       /\ tried[c][2].site = "spot" /\ ~tried[c][2].ok
       /\ Len(retry[c].events) = 9
       /\ retry[c].events[9] =
            Ev("spot.goto", 2, "throw", [err |-> "spot.goto", at |-> 2])
  /\ \E c \in Cycles : result[c] = "pending"

\* the events es of one withRetries call with `retries` retries follow the
\* loop: attempts are numbered from 0, a return ends the call, a failure
\* before the last attempt is followed by its sleep and the next attempt, and
\* the last failure by the throw of its error
FollowsLoop(es, retries) ==
  /\ CountOf(es, "call", Len(es)) <= retries + 1
  /\ \A k \in 1..Len(es) :
       /\ es[k].ev = "call" =>
            /\ es[k].i = CountOf(es, "call", k - 1)
            /\ es[k].i = CountOf(es, "fail", k - 1)
            /\ k = 1 \/ es[k - 1].ev = "sleep"
       /\ es[k].ev = "return" =>
            /\ k = Len(es)
            /\ es[k - 1].ev = "call"
            /\ es[k].val = [res |-> es[k].site, at |-> es[k - 1].i]
            /\ CountOf(es, "return", k - 1) = 0
       /\ es[k].ev = "fail" =>
            /\ es[k - 1].ev = "call" /\ es[k - 1].i = es[k].i
            /\ k < Len(es)
            /\ es[k + 1].ev = IF es[k].i < retries THEN "sleep" ELSE "throw"
       /\ es[k].ev = "sleep" =>
            /\ es[k - 1].ev = "fail" /\ es[k - 1].i = es[k].i
            /\ es[k].i < retries
            /\ es[k].val = [ms |-> DefaultDelayMs * (es[k].i + 1)]
            /\ k < Len(es) => es[k + 1].ev = "call"
            /\ \A j \in 1..(k - 1) :
                 es[j].ev = "sleep" => es[j].val.ms < es[k].val.ms
       /\ es[k].ev = "throw" =>
            /\ k = Len(es)
            /\ es[k - 1].ev = "fail" /\ es[k].val = es[k - 1].val
            /\ es[k].val.at = retries
            /\ CountOf(es, "fail", k) = retries + 1
       /\ k = 1 => es[k].ev = "call"

\* C20: withRetries calls fn at most retries+1 times, returns the result of
\* the first attempt that succeeds and calls fn no more, sleeps
\* delayMs*(i+1), strictly longer each time, after the i-th failed attempt
\* only when i < retries and then attempts again, and after retries+1 failed
\* attempts throws the error of the last one; the wait of
\* scrapeFintechAverages is not started unless its navigation has returned.
C20_Retries ==
  \A c \in Cycles :
    /\ \A site \in RetrySites : FollowsLoop(EventsAt(c, site), RetriesAt(site))
    /\ retry[c].events = <<Ev("fintech.waitForSelector", 0, "call", Null)>> =>
         LET nav == retry[c].before
         IN  /\ nav # <<>>
             /\ nav = EventsAt(c, "fintech.goto")
             /\ nav[Len(nav)].ev = "return"

\* one cycle starts its wait after a navigation that succeeded at its second
\* retry, after sleeps of 2000 and 4000, while the other starts its spot
\* navigation after a wait that failed retries+1 times and threw
C20_Witness ==
  /\ \E c \in Cycles :
       LET nav == retry[c].before
       IN  /\ pc[c] = "fintech.waitForSelector"
           /\ nav # <<>> /\ nav[Len(nav)].ev = "return" /\ nav[Len(nav)].i = 2
           /\ \E k \in 1..Len(nav) :
                nav[k].ev = "sleep" /\ nav[k].val = [ms |-> 4000]
  /\ \E c \in Cycles :
       LET wait == retry[c].before
       IN  /\ pc[c] = "spot.goto"
           /\ wait # <<>> /\ wait[Len(wait)].ev = "throw"
           /\ wait[1].site = "fintech.waitForSelector"
           /\ CountOf(wait, "call", Len(wait)) = 3

\* the members of liveSeries and the point p all carry the current UTC date
SameDay(p) ==
  /\ DateOf(p) = DatePart(ToISOString(now))
  /\ \A i \in 1..Len(liveSeries) : DateOf(liveSeries[i]) = DateOf(p)

\* C21: when liveSeries holds Cap points of the current day, the push of a
\* point of that day leaves liveSeries without its first member, the others in
\* their order, followed by the new point.
C21_EvictsOldest ==
  [][(/\ Len(log') = Len(log) + 1
      /\ Len(liveSeries) = Cap
      /\ SameDay(Last(log')))
       => liveSeries' = Append(Tail(liveSeries), Last(log'))]_vars

\* a full liveSeries of distinct points of today has taken one more point of
\* today: the oldest pushed point is gone and the others are there in order
C21_Witness ==
  /\ Len(log) = Cap + 1
  /\ \A i \in 1..Len(log) : DateOf(log[i]) = DatePart(ToISOString(now))
  /\ \A i, j \in 1..Len(log) : i # j => log[i] # log[j]
  /\ liveSeries = Tail(log)

\* the entries of a page that have at least two price elements
TwoPriced(entries) == SelectSeq(entries, LAMBDA e : Len(e.prices) >= 2)

\* the fintech extractor of cycle c returns in this step
FintechReturns(c) ==
  /\ Len(tried'[c]) = Len(tried[c]) + 1
  /\ Last(tried'[c]).site = "fintech"
  /\ Last(tried'[c]).ok

\* the fintech extractor of cycle c has returned
FintechOk(c) ==
  \E k \in 1..Len(tried[c]) : tried[c][k].site = "fintech" /\ tried[c][k].ok

\* C22: the rows the fintech extractor returns are exactly the entries, of
\* the page it read, with at least two price elements, in page order (the
\* first two price texts of each, trimmed), and its sampleCount is
\* their number; the point of a cycle carries that sampleCount, and 0 when
\* the extractor did not return; the names in its rankings are names of
\* those rows; and a point with sampleCount 0 has bid_avg, ask_avg, bestBuy
\* and bestSell absent and is emitted all the same.
C22_SampleCount ==
  [][\A c \in Cycles :
       /\ FintechReturns(c) =>
            LET kept == TwoPriced(Last(tried'[c]).entries)
            IN  /\ fin'[c].sampleCount = Len(kept)
                /\ Len(fin'[c].raw) = Len(kept)
                /\ \A k \in 1..Len(kept) :
                     /\ fin'[c].raw[k].buy = PriceText(kept[k].prices[1])
                     /\ fin'[c].raw[k].sell = PriceText(kept[k].prices[2])
       /\ Finishes(c) =>
            LET p == Last(log')
            IN  /\ Len(log') = Len(log) + 1
                /\ p.sampleCount =
                     (IF FintechOk(c) THEN fin[c].sampleCount ELSE 0)
                /\ FintechOk(c) <=> fin[c] # Null
                /\ p.bestBuy # Null =>
                     \E k \in 1..Len(fin[c].raw) :
                       fin[c].raw[k].name = p.bestBuy.name
                /\ p.bestSell # Null =>
                     \E k \in 1..Len(fin[c].raw) :
                       fin[c].raw[k].name = p.bestSell.name
                /\ p.sampleCount = 0 =>
                     /\ p.bid_avg = Null /\ p.ask_avg = Null
                     /\ p.bestBuy = Null /\ p.bestSell = Null
                /\ emitted' = Append(emitted, p)]_vars

\* two cycles whose fintech extractor returned have pushed and emitted their
\* points: one read a page with entries none of which has two prices and
\* its point has sampleCount 0, the other read a page with two entries of
\* which one has two prices (of its three) and counted that one
C22_Witness ==
  LET mine == (calls - nStarted + 1)..Len(log)
  IN  /\ nStarted >= 2
      /\ Len(log) = calls
      /\ \A c \in Cycles : pc[c] # "idle" => (pc[c] = "done" /\ FintechOk(c))
      /\ \E c \in Cycles :
           /\ pc[c] = "done"
           /\ Len(tried[c][1].entries) = 2
           /\ TwoPriced(tried[c][1].entries) = <<>>
      /\ \E c \in Cycles :
           /\ pc[c] = "done"
           /\ Len(tried[c][1].entries) = 2
           /\ Len(TwoPriced(tried[c][1].entries)) = 1
           /\ Len(TwoPriced(tried[c][1].entries)[1].prices) = 3
      /\ \E k \in mine : log[k].sampleCount = 0
      /\ \E k \in mine : log[k].sampleCount = 1
      /\ emitted = log

\* the instant an ISO time stamp denotes
InstantOf(iso) == iso.date * DayLen + iso.time

\* C23: the timestamps of the members of liveSeries never decrease from the
\* oldest position to the newest, also when cycles overlap and return in
\* another order than they started.
C23_TimeOrdered ==
  \A i, j \in 1..Len(liveSeries) :
    i < j => InstantOf(liveSeries[i].timestamp) <= InstantOf(liveSeries[j].timestamp)

\* C24: in every point bestSell is null exactly when bid_avg is null, and
\* bestBuy is null exactly when ask_avg is null: each pair is there exactly
\* when the extractor returned and some offer has a strictly positive parsed
\* buy (respectively sell) value.
C24_Agree ==
  got.kind = "point" =>
    LET rows    == given.rows
        buys    == [i \in 1..Len(rows) |-> parseNum(rows[i].buy)]
        sells   == [i \in 1..Len(rows) |-> parseNum(rows[i].sell)]
        hasBuy  == given.finOk /\ PositiveIn(buys) # {}
        hasSell == given.finOk /\ PositiveIn(sells) # {}
        p       == got.point
    IN  /\ (p.bestSell = Null) <=> (p.bid_avg = Null)
        /\ (p.bestBuy = Null) <=> (p.ask_avg = Null)
        /\ (p.bid_avg # Null) <=> hasBuy
        /\ (p.ask_avg # Null) <=> hasSell
=============================================================================
